---- MODULE Spec2Model ----
(***************************************************************************)
(* A model of gbsdiff: the song simulator (src/run/mod.rs and              *)
(* src/run/addr_space.rs) and the difference generator (src/diff.rs).      *)
(*                                                                         *)
(* Two state machines share this module.                                   *)
(*   Spec      one call of simulate_song: INIT, then PLAY ticks, with the  *)
(*             CPU a black box that, per instruction, performs at most one *)
(*             memory access and reports an outcome and a cycle count.     *)
(*   SpecDiff  one DiffGenerator over two I/O logs, pulled with next().    *)
(***************************************************************************)
EXTENDS Integers, Sequences, FiniteSets, TLC

VARIABLES
    \* ---- song simulator (src/run/mod.rs, src/run/addr_space.rs) ----
    gbs,            \* the parsed header: addresses, stack_ptr, timer_mod, timer_ctrl, rom
    cfg,            \* simulate_song's arguments: song_id, max_level, timeout,
                    \* allow_timeout, silence_timeout, watch
    logbook,        \* Logbook: [diagnostics, io_log]
    logger,         \* LogbookWriter: [max_level, rom_bank, pc, tick, cycle]
    silence_timer,  \* the Cell<u32> shared by simulate_song and the Apu
    space,          \* GbsAddrSpace: [rom, load_addr, sram, wram, hram, apu]
    cpu,            \* the CPU state the simulator reads and sets: [a, sp, pc]
    cycles_per_tick,
    timeout,        \* simulate_song's `mut timeout`
    total_cycles,   \* run_func's total_cycles
    orig_sp,        \* run_func's orig_sp
    steps,          \* instructions executed in the current run_func call
    accesses,       \* memory accesses the driver has performed in this song
    phase,          \* "INIT", "PLAY": the run_func call in progress; "done"
    result,         \* "running", "Ok", an Error variant, or "Panic"
    err,            \* the fields of the Error returned, as integers
    exit_via,       \* which `break` left the PLAY loop: "silence", "watch", "timeout"
    \* ---- difference generator (src/diff.rs) ----
    logs,           \* DiffGenerator.logs: <<before_log, after_log>>
    jitter,         \* DiffGenerator.jitter
    indices,        \* DiffGenerator.indices: <<i, j>>, 0-based cursors
    emitted,        \* the items next() has yielded so far, in order
    ended,          \* TRUE once next() has returned None
    \* ---- header parser (src/gbs.rs) and front end (src/main.rs) ----
    file,           \* a file read by main: [fields, data], data the bytes
    parsed,         \* what Gbs::new returned for it
    args,           \* Args: max_level, max_reports, print_diagnostics, jitter
    heads,          \* nb_songs and first_song of the two headers
    sims,           \* what simulate_song returned for the song last simulated
    song,           \* the loop variable of main's loop over songs
    failed,         \* main's `failed` list, as pairs of song ids
    report,         \* the lines printed while the last song was compared
    exit_code,      \* <<>> while the process runs, then <<its exit status>>
    program         \* the driver's code, when it is given: the instruction of each call

simvars ==
    <<gbs, cfg, logbook, logger, silence_timer, space, cpu, cycles_per_tick,
      timeout, total_cycles, orig_sp, steps, accesses, phase, result, err, exit_via>>

diffvars == <<logs, jitter, indices, emitted, ended>>

frontvars ==
    <<file, parsed, args, heads, sims, song, failed, report, exit_code, program>>

vars == <<simvars, diffvars, frontvars>>

-----------------------------------------------------------------------------
(* Data model (src/main.rs)                                                *)

\* DiagnosticLevel derives Ord from the order of its variants.
LevelOrd(level) ==
    CASE level = "Error" -> 0
      [] level = "Warning" -> 1
      [] level = "Note" -> 2

\* A filter that drops the diagnostics at max_level itself.
LevelLE_Strict(l1, l2) == LevelOrd(l1) < LevelOrd(l2)

\* level <= max_level
LevelLE(l1, l2) == LevelOrd(l1) <= LevelOrd(l2)

Timestamp(tick, cycle) == [tick |-> tick, cycle |-> cycle]

\* Address(rom_bank, offset)
Address(bank, ofs) == <<bank, ofs>>

IoAccess(when, pc, addr, data) ==
    [when |-> when, pc |-> pc, addr |-> addr, data |-> data]

Diagnostic(when, pc, level, kind) ==
    [when |-> when, pc |-> pc, level |-> level, kind |-> kind]

\* Lexicographic order of timestamps, (tick, cycle).
TimeLE(t1, t2) ==
    \/ t1.tick < t2.tick
    \/ t1.tick = t2.tick /\ t1.cycle <= t2.cycle

NonDecreasing(s) ==
    \A k \in 1..(Len(s) - 1) : TimeLE(s[k].when, s[k + 1].when)

-----------------------------------------------------------------------------
(* Logbook writer (src/run/mod.rs)                                         *)

\* Option::None (a record, so that it compares with the records it stands in for)
None == [none |-> TRUE]

\* What an address-space call can reach and change: the logbook, its writer,
\* the silence timer and the address space itself.
Mach ==
    [logbook |-> logbook, logger |-> logger,
     silence_timer |-> silence_timer, space |-> space]

\* LogbookWriter::now
Now(m) == Timestamp(m.logger.tick, m.logger.cycle)

\* Address(self.rom_bank, self.pc)
WriterPc(m) == Address(m.logger.rom_bank, m.logger.pc)

\* cur_bank_addr
CurBankAddr(m, addr) == Address(m.logger.rom_bank, addr)

\* LogbookWriter::log
WriterLog(m, addr, data) ==
    [m EXCEPT !.logbook.io_log = Append(@, IoAccess(Now(m), WriterPc(m), addr, data))]

\* LogbookWriter::diagnose
WriterDiagnose(m, level, kind) ==
    IF LevelLE(level, m.logger.max_level)
    THEN [m EXCEPT !.logbook.diagnostics =
                       Append(@, Diagnostic(Now(m), WriterPc(m), level, kind))]
    ELSE m

\* next_tick that restarts the cycle count without counting the tick.
NextTick_SameTick(lg) == [lg EXCEPT !.cycle = 0]

\* next_tick that counts the tick and lets the cycle count run on.
NextTick_KeepCycle(lg) == [lg EXCEPT !.tick = @ + 1]

\* LogbookWriter::next_tick
NextTick(lg) == [lg EXCEPT !.tick = @ + 1, !.cycle = 0]

-----------------------------------------------------------------------------
(* APU (src/run/addr_space.rs)                                             *)

\* The addresses HwReg decodes to the 21 sound registers and the 16 bytes of
\* wave RAM: NR10-NR14, NR21-NR24, NR30-NR34, NR41-NR44, NR50-NR52, Wave0-WaveF.
ApuRegs ==
    (\hFF10..\hFF14) \cup (\hFF16..\hFF1E) \cup (\hFF20..\hFF26) \cup (\hFF30..\hFF3F)

\* Err(0xFF15) and Err(0xFF1F)
ApuHoles == {\hFF15, \hFF1F}

\* NR13, NR23, NR33, NR43 read 0xFF whatever was written.
ApuWriteOnly == {\hFF13, \hFF18, \hFF1D, \hFF22}

Bit(x, i) == (x \div (2 ^ i)) % 2

\* bitwise OR of two bytes
BitOr8(x, y) ==
    LET b(i) == IF Bit(x, i) = 1 \/ Bit(y, i) = 1 THEN 2 ^ i ELSE 0
    IN  b(0) + b(1) + b(2) + b(3) + b(4) + b(5) + b(6) + b(7)

\* A read that returns the stored byte as it is.
ApuReadMask_NoMask(address) == 0

\* The bits Apu::read ORs into the stored byte.
ApuReadMask(address) ==
    CASE address = \hFF10 -> \h80
      [] address \in {\hFF11, \hFF16} -> \h3F
      [] address \in {\hFF14, \hFF19, \hFF1E, \hFF23} -> \hBF
      [] address = \hFF1A -> \h7F
      [] address = \hFF20 -> \hC0
      [] address = \hFF26 -> \h70
      [] OTHER -> 0

\* Apu::read: [handled, val, m]; handled = FALSE is the None it returns.
ApuRead(m, address) ==
    IF address \in ApuWriteOnly THEN [handled |-> TRUE, val |-> \hFF, m |-> m]
    ELSE IF address \in ApuRegs
    THEN [handled |-> TRUE, m |-> m,
          val |-> BitOr8(m.space.apu[address], ApuReadMask(address))]
    ELSE IF address \in ApuHoles
    THEN [handled |-> TRUE, val |-> \hFF,
          m |-> WriterDiagnose(m, "Note",
                               <<"UnsupportedRead", CurBankAddr(m, address)>>)]
    ELSE [handled |-> FALSE, val |-> \hFF, m |-> m]

\* Apu::write: [handled, m]. The access is logged first, whatever the address;
\* the silence timer is reset only on the paths that return Some(()).
ApuWrite(m, address, data) ==
    LET m1 == WriterLog(m, address, data)
    IN  IF address \in ApuRegs
        THEN [handled |-> TRUE,
              m |-> [m1 EXCEPT !.space.apu[address] = data, !.silence_timer = 0]]
        ELSE IF address \in ApuHoles
        THEN [handled |-> TRUE,
              m |-> [WriterDiagnose(m1, "Note",
                                    <<"UnsupportedWrite", CurBankAddr(m1, address), data>>)
                         EXCEPT !.silence_timer = 0]]
        ELSE [handled |-> FALSE, m |-> m1]

-----------------------------------------------------------------------------
(* Address space (src/run/addr_space.rs)                                   *)

UnsupportedRead(m, address, val) ==
    [val |-> val,
     m |-> WriterDiagnose(m, "Warning", <<"UnsupportedRead", CurBankAddr(m, address)>>)]

UnsupportedWrite(m, address, data) ==
    WriterDiagnose(m, "Warning", <<"UnsupportedWrite", CurBankAddr(m, address), data>>)

\* checked_sub(load_addr).and_then(|ofs| rom.get(ofs)) is Some: the offset is not
\* negative and lies inside the payload
RomHas(rom, ofs) == ofs >= 0 /\ ofs < Len(rom)

\* A read whose banked window falls back to 0xFF, as the low window does.
AddrRead_SameFallback(m, address) ==
    CASE address \in \h0000..\h3FFF ->
           LET ofs == address - m.space.load_addr
           IN  IF RomHas(m.space.rom, ofs) THEN [val |-> m.space.rom[ofs + 1], m |-> m]
               ELSE UnsupportedRead(m, address, \hFF)
      [] address \in \h4000..\h7FFF ->
           LET ofs == (address - \h4000) + m.logger.rom_bank * \h4000
                          - m.space.load_addr
           IN  IF RomHas(m.space.rom, ofs) THEN [val |-> m.space.rom[ofs + 1], m |-> m]
               ELSE UnsupportedRead(m, address, \hFF)
      [] address \in \h8000..\h9FFF -> UnsupportedRead(m, address, \hFF)
      [] address \in \hA000..\hBFFF ->
           [val |-> m.space.sram[address - \hA000], m |-> m]
      [] address \in \hC000..\hDFFF ->
           [val |-> m.space.wram[address - \hC000], m |-> m]
      [] address \in \hE000..\hFDFF ->
           [val |-> m.space.wram[address - \hE000],
            m |-> WriterDiagnose(m, "Note", <<"EchoRamRead", CurBankAddr(m, address)>>)]
      [] address \in \hFE00..\hFEFF -> UnsupportedRead(m, address, \hFF)
      [] address \in \hFF00..\hFF7F ->
           LET r == ApuRead(m, address)
           IN  IF r.handled THEN [val |-> r.val, m |-> r.m]
               ELSE UnsupportedRead(m, address, \hFF)
      [] address \in \hFF80..\hFFFE ->
           [val |-> m.space.hram[address - \hFF80], m |-> m]
      [] address = \hFFFF -> UnsupportedRead(m, address, \hFF)

\* A read that finds no work RAM behind the echo addresses.
AddrRead_NoEcho(m, address) ==
    CASE address \in \h0000..\h3FFF ->
           LET ofs == address - m.space.load_addr
           IN  IF RomHas(m.space.rom, ofs) THEN [val |-> m.space.rom[ofs + 1], m |-> m]
               ELSE UnsupportedRead(m, address, \hFF)
      [] address \in \h4000..\h7FFF ->
           LET ofs == (address - \h4000) + m.logger.rom_bank * \h4000
                          - m.space.load_addr
           IN  IF RomHas(m.space.rom, ofs) THEN [val |-> m.space.rom[ofs + 1], m |-> m]
               ELSE UnsupportedRead(m, address, \h00)
      [] address \in \h8000..\h9FFF -> UnsupportedRead(m, address, \hFF)
      [] address \in \hA000..\hBFFF ->
           [val |-> m.space.sram[address - \hA000], m |-> m]
      [] address \in \hC000..\hDFFF ->
           [val |-> m.space.wram[address - \hC000], m |-> m]
      [] address \in \hE000..\hFDFF ->
           [val |-> 0,
            m |-> WriterDiagnose(m, "Note", <<"EchoRamRead", CurBankAddr(m, address)>>)]
      [] address \in \hFE00..\hFEFF -> UnsupportedRead(m, address, \hFF)
      [] address \in \hFF00..\hFF7F ->
           LET r == ApuRead(m, address)
           IN  IF r.handled THEN [val |-> r.val, m |-> r.m]
               ELSE UnsupportedRead(m, address, \hFF)
      [] address \in \hFF80..\hFFFE ->
           [val |-> m.space.hram[address - \hFF80], m |-> m]
      [] address = \hFFFF -> UnsupportedRead(m, address, \hFF)

\* GbsAddrSpace::read: [val, m]
AddrRead(m, address) ==
    CASE address \in \h0000..\h3FFF ->
           LET ofs == address - m.space.load_addr
           IN  IF RomHas(m.space.rom, ofs) THEN [val |-> m.space.rom[ofs + 1], m |-> m]
               ELSE UnsupportedRead(m, address, \hFF)
      [] address \in \h4000..\h7FFF ->
           LET ofs == (address - \h4000) + m.logger.rom_bank * \h4000
                          - m.space.load_addr
           IN  IF RomHas(m.space.rom, ofs) THEN [val |-> m.space.rom[ofs + 1], m |-> m]
               ELSE UnsupportedRead(m, address, \h00)
      [] address \in \h8000..\h9FFF -> UnsupportedRead(m, address, \hFF)
      [] address \in \hA000..\hBFFF ->
           [val |-> m.space.sram[address - \hA000], m |-> m]
      [] address \in \hC000..\hDFFF ->
           [val |-> m.space.wram[address - \hC000], m |-> m]
      [] address \in \hE000..\hFDFF ->
           [val |-> m.space.wram[address - \hE000],
            m |-> WriterDiagnose(m, "Note", <<"EchoRamRead", CurBankAddr(m, address)>>)]
      [] address \in \hFE00..\hFEFF -> UnsupportedRead(m, address, \hFF)
      [] address \in \hFF00..\hFF7F ->
           LET r == ApuRead(m, address)
           IN  IF r.handled THEN [val |-> r.val, m |-> r.m]
               ELSE UnsupportedRead(m, address, \hFF)
      [] address \in \hFF80..\hFFFE ->
           [val |-> m.space.hram[address - \hFF80], m |-> m]
      [] address = \hFFFF -> UnsupportedRead(m, address, \hFF)

\* A write that latches bank 1 for a written 0, as an authentic MBC does.
AddrWrite_BankRemap(m, address, data) ==
    CASE address \in \h2000..\h3FFF ->
           LET m1 == [m EXCEPT !.logger.rom_bank = IF data = 0 THEN 1 ELSE data]
           IN  IF data = 0 THEN UnsupportedWrite(m1, address, data) ELSE m1
      [] address \in (\h0000..\h1FFF) \cup (\h4000..\h7FFF) ->
           UnsupportedWrite(m, address, data)
      [] address \in \h8000..\h9FFF -> UnsupportedWrite(m, address, data)
      [] address \in \hA000..\hBFFF -> [m EXCEPT !.space.sram[address - \hA000] = data]
      [] address \in \hC000..\hDFFF -> [m EXCEPT !.space.wram[address - \hC000] = data]
      [] address \in \hE000..\hFDFF ->
           [WriterDiagnose(m, "Note", <<"EchoRamWrite", CurBankAddr(m, address), data>>)
                EXCEPT !.space.wram[address - \hE000] = data]
      [] address \in \hFE00..\hFEFF -> UnsupportedWrite(m, address, data)
      [] address \in \hFF00..\hFF7F ->
           LET r == ApuWrite(m, address, data)
           IN  IF r.handled THEN r.m ELSE UnsupportedWrite(r.m, address, data)
      [] address \in \hFF80..\hFFFE -> [m EXCEPT !.space.hram[address - \hFF80] = data]
      [] address = \hFFFF -> UnsupportedWrite(m, address, data)

\* GbsAddrSpace::write: the machine after the write
AddrWrite(m, address, data) ==
    CASE address \in \h2000..\h3FFF ->
           LET m1 == [m EXCEPT !.logger.rom_bank = data]
           IN  IF data = 0 THEN UnsupportedWrite(m1, address, data) ELSE m1
      [] address \in (\h0000..\h1FFF) \cup (\h4000..\h7FFF) ->
           UnsupportedWrite(m, address, data)
      [] address \in \h8000..\h9FFF -> UnsupportedWrite(m, address, data)
      [] address \in \hA000..\hBFFF -> [m EXCEPT !.space.sram[address - \hA000] = data]
      [] address \in \hC000..\hDFFF -> [m EXCEPT !.space.wram[address - \hC000] = data]
      [] address \in \hE000..\hFDFF ->
           [WriterDiagnose(m, "Note", <<"EchoRamWrite", CurBankAddr(m, address), data>>)
                EXCEPT !.space.wram[address - \hE000] = data]
      [] address \in \hFE00..\hFEFF -> UnsupportedWrite(m, address, data)
      [] address \in \hFF00..\hFF7F ->
           LET r == ApuWrite(m, address, data)
           IN  IF r.handled THEN r.m ELSE UnsupportedWrite(r.m, address, data)
      [] address \in \hFF80..\hFFFE -> [m EXCEPT !.space.hram[address - \hFF80] = data]
      [] address = \hFFFF -> UnsupportedWrite(m, address, data)

-----------------------------------------------------------------------------
(* Call-frame interpreter (src/run/mod.rs, run_func)                       *)

\* A loop condition without the floor of 0x8000.
FrameLive_NoFloor(sp, orig) == sp <= orig

\* while cpu.sp >= 0x8000 && cpu.sp <= orig_sp
FrameLive(sp, orig) == sp >= \h8000 /\ sp <= orig

\* u16 wrapping_add
WrapAdd16(x, y) == (x + y) % 65536

\* A range that ends at 0xFF3F.
Haywire_LowHalf(x) == x \in \hFF00..\hFF3F

\* (0xFF00..=0xFF7F).contains(&x)
Haywire(x) == x \in \hFF00..\hFF7F

\* cpu.tick(): the CPU is a black box. One instruction performs the memory
\* access `op` (<<"none">>, <<"write", addr, data>> or <<"read", addr>>) through
\* the address space and leaves the machine after it.
CpuAccess(m, op) ==
    CASE op[1] = "none" -> m
      [] op[1] = "write" -> AddrWrite(m, op[2], op[3])
      [] op[1] = "read" -> AddrRead(m, op[2]).m

\* A cycle total that is never found too large.
LocksUp_Never(total, elapsed) == FALSE

\* total_cycles.checked_add(elapsed) is None
LocksUp(total, elapsed) == total + elapsed > 65535

\* An iteration that treats the debug opcodes as it treats halt.
RunFuncStep_DebugFatal(m, c, total, op, outcome, elapsed, sp2, pc2) ==
    LET bank == m.logger.rom_bank
        m0 == [m EXCEPT !.logger.pc = c.pc]
        fail(kind, fields) ==
            [m |-> m0, cpu |-> c, total_cycles |-> total, result |-> kind, err |-> fields]
        m1 == CpuAccess(m0, op)
        c1 == [c EXCEPT !.sp = sp2, !.pc = pc2]
        m2 == IF outcome \in {"Debug", "Break"}
              THEN WriterDiagnose(m1, "Note", <<"DebugOp", Address(bank, c.pc)>>)
              ELSE m1
    IN  IF Haywire(c.pc) THEN fail("PcHaywire", <<bank, c.pc>>)
        ELSE IF Haywire(c.sp) THEN fail("SpHaywire", <<bank, c.sp, bank, c.pc>>)
        ELSE IF outcome \in {"Halt", "Debug", "Break"}
        THEN [fail("Halted", <<bank, c.pc>>) EXCEPT !.m = m1, !.cpu = c1]
        ELSE IF outcome = "Stop"
        THEN [fail("Stopped", <<bank, c.pc>>) EXCEPT !.m = m1, !.cpu = c1]
        ELSE IF outcome = "InvalidOpcode"
        THEN LET r == AddrRead(m1, c.pc)
             IN  [fail("InvalidOpcode", <<r.val, bank, c.pc>>)
                      EXCEPT !.m = r.m, !.cpu = c1]
        ELSE IF LocksUp(total, elapsed)
        THEN [fail("LockedUp", <<bank, c.pc>>) EXCEPT !.m = m2, !.cpu = c1]
        ELSE [m |-> [m2 EXCEPT !.logger.cycle = WrapAdd16(@, elapsed)],
              cpu |-> c1, total_cycles |-> total + elapsed,
              result |-> "running", err |-> <<>>]

\* One iteration of the loop of run_func, for an instruction that performs
\* `op`, reports `outcome` and `elapsed` cycles and leaves SP = sp2, PC = pc2.
\* [m, cpu, total_cycles, result, err]
RunFuncStep(m, c, total, op, outcome, elapsed, sp2, pc2) ==
    LET bank == m.logger.rom_bank
        m0 == [m EXCEPT !.logger.pc = c.pc]
        fail(kind, fields) ==
            [m |-> m0, cpu |-> c, total_cycles |-> total, result |-> kind, err |-> fields]
        m1 == CpuAccess(m0, op)
        c1 == [c EXCEPT !.sp = sp2, !.pc = pc2]
        m2 == IF outcome \in {"Debug", "Break"}
              THEN WriterDiagnose(m1, "Note", <<"DebugOp", Address(bank, c.pc)>>)
              ELSE m1
    IN  IF Haywire(c.pc) THEN fail("PcHaywire", <<bank, c.pc>>)
        ELSE IF Haywire(c.sp) THEN fail("SpHaywire", <<bank, c.sp, bank, c.pc>>)
        ELSE IF outcome = "Halt"
        THEN [fail("Halted", <<bank, c.pc>>) EXCEPT !.m = m1, !.cpu = c1]
        ELSE IF outcome = "Stop"
        THEN [fail("Stopped", <<bank, c.pc>>) EXCEPT !.m = m1, !.cpu = c1]
        ELSE IF outcome = "InvalidOpcode"
        THEN LET r == AddrRead(m1, c.pc)
             IN  [fail("InvalidOpcode", <<r.val, bank, c.pc>>)
                      EXCEPT !.m = r.m, !.cpu = c1]
        ELSE IF LocksUp(total, elapsed)
        THEN [fail("LockedUp", <<bank, c.pc>>) EXCEPT !.m = m2, !.cpu = c1]
        ELSE [m |-> [m2 EXCEPT !.logger.cycle = WrapAdd16(@, elapsed)],
              cpu |-> c1, total_cycles |-> total + elapsed,
              result |-> "running", err |-> <<>>]

\* A return test that adds 2 without wrapping.
FrameReturned_Plain(sp, orig) == sp = orig + 2

\* The end of run_func, once the frame is no longer live:
\* Ok(total_cycles) iff SP == orig_sp.wrapping_add(2).
FrameReturned(sp, orig) == sp = WrapAdd16(orig, 2)

-----------------------------------------------------------------------------
(* Simulator driver (src/run/mod.rs, simulate_song)                        *)

\* Gbs::timer_div_bit
TimerDivBit(timer_ctrl) ==
    CASE timer_ctrl % 4 = 0 -> 9
      [] timer_ctrl % 4 = 1 -> 3
      [] timer_ctrl % 4 = 2 -> 5
      [] timer_ctrl % 4 = 3 -> 7

\* Gbs::use_timer: timer_ctrl & 4 != 0
UseTimer(timer_ctrl) == Bit(timer_ctrl, 2) = 1

\* (1u16 << timer_div_bit) * (256u16 - timer_mod), before it is cut to 16 bits
TimerProduct(g) == (2 ^ TimerDivBit(g.timer_ctrl)) * (256 - g.timer_mod)

\* The u16 multiplication overflows: a panic in a build with overflow checks,
\* a wrapped product in a build without.
TickOverflows(g) == UseTimer(g.timer_ctrl) /\ TimerProduct(g) > 65535

\* cycles_per_tick as a build without overflow checks computes it
CyclesPerTick(g) ==
    IF UseTimer(g.timer_ctrl) THEN TimerProduct(g) % 65536 ELSE 114 * 154

\* TickEnd with the timeout check ahead of the watch check.
TickEnd_TimeoutFirst(m, cycles, cpt, tmo, c) ==
    LET m1 == IF cpt >= cycles THEN m
              ELSE WriterDiagnose(m, "Warning", <<"TooLong", cycles, cpt>>)
        m2 == [m1 EXCEPT !.silence_timer = @ + cpt]
        w == IF c.watch = None THEN [val |-> 0, m |-> m2]
             ELSE AddrRead(m2, c.watch.addr)
        stop(mm, t, res, via) ==
            [m |-> mm, timeout |-> t, result |-> res, exit_via |-> via]
    IN  IF m1.silence_timer >= c.silence_timeout THEN stop(m1, tmo, "Ok", "silence")
        ELSE IF tmo < cpt /\ c.allow_timeout THEN stop(m2, tmo, "Ok", "timeout")
        ELSE IF tmo < cpt THEN stop(m2, tmo, "Timeout", "timeout")
        ELSE IF c.watch # None /\ w.val = c.watch.value THEN stop(w.m, tmo, "Ok", "watch")
        ELSE stop(w.m, tmo - cpt, "running", "none")

\* TickEnd that finds a call of exactly cycles_per_tick cycles too long.
TickEnd_TooLongAtBudget(m, cycles, cpt, tmo, c) ==
    LET m1 == IF cpt > cycles THEN m
              ELSE WriterDiagnose(m, "Warning", <<"TooLong", cycles, cpt>>)
        m2 == [m1 EXCEPT !.silence_timer = @ + cpt]
        w == IF c.watch = None THEN [val |-> 0, m |-> m2]
             ELSE AddrRead(m2, c.watch.addr)
        stop(mm, t, res, via) ==
            [m |-> mm, timeout |-> t, result |-> res, exit_via |-> via]
    IN  IF m1.silence_timer >= c.silence_timeout THEN stop(m1, tmo, "Ok", "silence")
        ELSE IF c.watch # None /\ w.val = c.watch.value THEN stop(w.m, tmo, "Ok", "watch")
        ELSE IF tmo >= cpt THEN stop(w.m, tmo - cpt, "running", "none")
        ELSE IF c.allow_timeout THEN stop(w.m, tmo, "Ok", "timeout")
        ELSE stop(w.m, tmo, "Timeout", "timeout")

\* TickEnd with a budget that must exceed cycles_per_tick to go on.
TickEnd_StrictBudget(m, cycles, cpt, tmo, c) ==
    LET m1 == IF cpt >= cycles THEN m
              ELSE WriterDiagnose(m, "Warning", <<"TooLong", cycles, cpt>>)
        m2 == [m1 EXCEPT !.silence_timer = @ + cpt]
        w == IF c.watch = None THEN [val |-> 0, m |-> m2]
             ELSE AddrRead(m2, c.watch.addr)
        stop(mm, t, res, via) ==
            [m |-> mm, timeout |-> t, result |-> res, exit_via |-> via]
    IN  IF m1.silence_timer >= c.silence_timeout THEN stop(m1, tmo, "Ok", "silence")
        ELSE IF c.watch # None /\ w.val = c.watch.value THEN stop(w.m, tmo, "Ok", "watch")
        ELSE IF tmo > cpt THEN stop(w.m, tmo - cpt, "running", "none")
        ELSE IF c.allow_timeout THEN stop(w.m, tmo, "Ok", "timeout")
        ELSE stop(w.m, tmo, "Timeout", "timeout")

\* What follows a PLAY call that returned `cycles`, up to the end of the loop
\* body: the TooLong diagnostic, then the termination checks in the order
\* silence, watch, timeout. [m, timeout, result, exit_via]; result "running"
\* means that the loop goes round again.
TickEnd(m, cycles, cpt, tmo, c) ==
    LET m1 == IF cpt >= cycles THEN m
              ELSE WriterDiagnose(m, "Warning", <<"TooLong", cycles, cpt>>)
        m2 == [m1 EXCEPT !.silence_timer = @ + cpt]
        w == IF c.watch = None THEN [val |-> 0, m |-> m2]
             ELSE AddrRead(m2, c.watch.addr)
        stop(mm, t, res, via) ==
            [m |-> mm, timeout |-> t, result |-> res, exit_via |-> via]
    IN  IF m1.silence_timer >= c.silence_timeout THEN stop(m1, tmo, "Ok", "silence")
        ELSE IF c.watch # None /\ w.val = c.watch.value THEN stop(w.m, tmo, "Ok", "watch")
        ELSE IF tmo >= cpt THEN stop(w.m, tmo - cpt, "running", "none")
        ELSE IF c.allow_timeout THEN stop(w.m, tmo, "Ok", "timeout")
        ELSE stop(w.m, tmo, "Timeout", "timeout")

-----------------------------------------------------------------------------
(* The simulator as a state machine                                        *)

\* Bounds of the exploration: PLAY ticks per song and instructions per call
\* of run_func.
MaxTick == 33

MaxSteps == 3

\* Memory accesses per song of the driver that probes the address space.
MaxAccesses == 2

\* Writes per song of the driver of the timing runs, and the last tick in
\* which it writes: from the next tick on it is silent.
MaxWrites == 1

MaxWriteTick == 2

\* One address of every region and of every kind of I/O register.
MemAddrs ==
    {\h0000, \h2000, \h4000, \h8000, \hA000, \hC000, \hE000, \hFE00,
     \hFF00, \hFF10, \hFF15, \hFF27, \hFF30, \hFF40, \hFF80, \hFFFF}

\* The last address of each RAM region, and the work RAM cell the last echo
\* address falls on.
EdgeAddrs == {\hBFFF, \hDDFF, \hDFFF, \hFDFF, \hFFFE}

\* The RAM cells the model keeps: those the addresses above reach.
SramOfs == {a - \hA000 : a \in (MemAddrs \cup EdgeAddrs) \cap (\hA000..\hBFFF)}

WramOfs ==
    {a - \hC000 : a \in (MemAddrs \cup EdgeAddrs) \cap (\hC000..\hDFFF)}
        \cup {a - \hE000 : a \in (MemAddrs \cup EdgeAddrs) \cap (\hE000..\hFDFF)}

HramOfs == {a - \hFF80 : a \in (MemAddrs \cup EdgeAddrs) \cap (\hFF80..\hFFFE)}

\* A header that Gbs::new accepts, with the given stack pointer and timer.
Header(sp, timer_mod, timer_ctrl) ==
    [load_addr |-> \h0400, init_addr |-> \h0400, play_addr |-> \h0404,
     stack_ptr |-> sp, timer_mod |-> timer_mod, timer_ctrl |-> timer_ctrl,
     rom |-> <<\hC9, \h00, \h00, \h00, \hC9>>]

Config(max_level, tmo, allow_timeout, silence_timeout, watch) ==
    [song_id |-> 0, max_level |-> max_level, timeout |-> tmo,
     allow_timeout |-> allow_timeout, silence_timeout |-> silence_timeout,
     watch |-> watch]

Watch(addr, value) == [addr |-> addr, value |-> value]

\* The difference generator is not running.
DiffIdle ==
    /\ logs = <<<<>>, <<>>>>
    /\ jitter = 0
    /\ indices = <<0, 0>>
    /\ emitted = <<>>
    /\ ended = FALSE

\* The front end is not running.
FrontIdle ==
    /\ file = None
    /\ parsed = None
    /\ args = None
    /\ heads = None
    /\ sims = None
    /\ song = 0
    /\ failed = <<>>
    /\ report = <<>>
    /\ exit_code = <<>>
    /\ program = None

\* What simulate_song creates anew at each call: the logbook, the
\* LogbookWriter, the silence timer and the address space.
FreshMach(g, c) ==
    [logbook |-> [diagnostics |-> <<>>, io_log |-> <<>>],
     logger |-> [max_level |-> c.max_level, rom_bank |-> 1, pc |-> 0,
                 tick |-> 0, cycle |-> 0],
     silence_timer |-> 0,
     space |-> [rom |-> g.rom, load_addr |-> g.load_addr,
                sram |-> [o \in SramOfs |-> 0],
                wram |-> [o \in WramOfs |-> 0],
                hram |-> [o \in HramOfs |-> 0],
                apu |-> [r \in ApuRegs |-> 0]]]

\* simulate_song up to its first call of run_func: the logbook and its writer,
\* cycles_per_tick, the silence timer, LOAD, and the registers set for INIT.
SimStart(g, c) ==
    /\ gbs = g
    /\ cfg = c
    /\ logbook = FreshMach(g, c).logbook
    /\ logger = FreshMach(g, c).logger
    /\ silence_timer = FreshMach(g, c).silence_timer
    /\ space = FreshMach(g, c).space
    /\ cpu = [a |-> c.song_id, sp |-> g.stack_ptr, pc |-> g.init_addr]
    /\ timeout = c.timeout
    /\ total_cycles = 0
    /\ orig_sp = g.stack_ptr
    /\ steps = 0
    /\ accesses = 0
    /\ err = <<>>
    /\ exit_via = "none"
    /\ \/ /\ cycles_per_tick = CyclesPerTick(g)
          /\ phase = "INIT"
          /\ result = "running"
       \/ /\ TickOverflows(g)
          /\ cycles_per_tick = 0
          /\ phase = "done"
          /\ result = "Panic"

\* The simulator is not running.
SimIdle == SimStart(Header(\hDFFE, 0, 0), Config("Warning", 0, FALSE, 0, None))

SetMach(m) ==
    /\ logbook' = m.logbook
    /\ logger' = m.logger
    /\ silence_timer' = m.silence_timer
    /\ space' = m.space

\* What one instruction does, as cpu.tick() shows it to run_func: a memory
\* access, a TickResult, the cycles it took, the move of SP and the next PC.
Instr(op, outcome, elapsed, sp_delta, pc) ==
    [op |-> op, outcome |-> outcome, elapsed |-> elapsed,
     sp_delta |-> sp_delta, pc |-> pc]

\* One iteration of the loop of run_func, for one instruction of the driver.
\* The driver performs at most `max_accesses` memory accesses, none of them
\* after tick `last_access_tick`.
CpuStep(env) ==
    /\ phase \in {"INIT", "PLAY"}
    /\ result = "running"
    /\ FrameLive(cpu.sp, orig_sp)
    /\ steps < MaxSteps
    /\ \E i \in env.instrs :
          LET r == RunFuncStep(Mach, cpu, total_cycles, i.op, i.outcome,
                               i.elapsed, WrapAdd16(cpu.sp, i.sp_delta), i.pc)
          IN  /\ i.op[1] # "none" =>
                     accesses < env.max_accesses /\ logger.tick <= env.last_access_tick
              /\ accesses' = IF i.op[1] # "none" THEN accesses + 1 ELSE accesses
              /\ SetMach(r.m)
              /\ cpu' = r.cpu
              /\ total_cycles' = r.total_cycles
              /\ result' = r.result
              /\ err' = r.err
              /\ steps' = steps + 1
              /\ phase' = IF r.result = "running" THEN phase ELSE "done"
    /\ UNCHANGED <<gbs, cfg, cycles_per_tick, timeout, orig_sp, exit_via, diffvars, frontvars>>

\* The entry of run_func for the next PLAY call: next_tick, SP and PC set from
\* the header, total_cycles = 0, orig_sp = SP.
EnterPlay(m) ==
    /\ SetMach([m EXCEPT !.logger = NextTick(@)])
    /\ cpu' = [cpu EXCEPT !.sp = gbs.stack_ptr, !.pc = gbs.play_addr]
    /\ total_cycles' = 0
    /\ orig_sp' = gbs.stack_ptr
    /\ steps' = 0
    /\ phase' = "PLAY"

PoppedTooDeep ==
    /\ result' = "PoppedTooDeep"
    /\ err' = <<cpu.sp, orig_sp>>
    /\ phase' = "done"
    /\ UNCHANGED <<logbook, logger, silence_timer, space, cpu, total_cycles,
                   orig_sp, steps, timeout, exit_via>>

\* The INIT call of run_func ends: its error is returned, or the PLAY loop
\* is entered.
InitReturns ==
    /\ phase = "INIT"
    /\ result = "running"
    /\ ~FrameLive(cpu.sp, orig_sp)
    /\ IF FrameReturned(cpu.sp, orig_sp)
       THEN /\ EnterPlay(Mach)
            /\ UNCHANGED <<result, err, timeout, exit_via>>
       ELSE PoppedTooDeep
    /\ UNCHANGED <<gbs, cfg, cycles_per_tick, accesses, diffvars, frontvars>>

\* A PLAY call of run_func ends: its error is returned, or the rest of the
\* loop body runs and the song ends or the next PLAY call is entered.
PlayReturns ==
    /\ phase = "PLAY"
    /\ result = "running"
    /\ ~FrameLive(cpu.sp, orig_sp)
    /\ IF FrameReturned(cpu.sp, orig_sp)
       THEN LET e == TickEnd(Mach, total_cycles, cycles_per_tick, timeout, cfg)
            IN  /\ timeout' = e.timeout
                /\ result' = e.result
                /\ exit_via' = e.exit_via
                /\ err' = <<>>
                /\ IF e.result = "running"
                   THEN /\ logger.tick < MaxTick
                        /\ EnterPlay(e.m)
                   ELSE /\ SetMach(e.m)
                        /\ phase' = "done"
                        /\ UNCHANGED <<cpu, total_cycles, orig_sp, steps>>
       ELSE PoppedTooDeep
    /\ UNCHANGED <<gbs, cfg, cycles_per_tick, accesses, diffvars, frontvars>>

\* Instructions every driver has: one that touches nothing, the return
\* (SP + 2), and a pop past the return address (SP + 4).
Nop == Instr(<<"none">>, "Ok", 4, 0, \h0404)

Ret == Instr(<<"none">>, "Ok", 4, 2, \h0404)

PopTwice == Instr(<<"none">>, "Ok", 4, 4, \h0404)

Load(addr) == Instr(<<"read", addr>>, "Ok", 4, 0, \h0404)

Store(addr, data) == Instr(<<"write", addr, data>>, "Ok", 4, 0, \h0404)

\* The sound driver of the timing runs: it writes an APU register or a work
\* RAM cell, returns, pops too much, or halts.
DriverEnv ==
    [instrs |-> {Nop, Ret, PopTwice, Store(\hFF10, 1), Store(\hC000, 1),
                 Instr(<<"none">>, "Halt", 4, 0, \h0404)},
     max_accesses |-> MaxWrites,
     last_access_tick |-> MaxWriteTick]

\* <<timer_mod, timer_ctrl>>: no timer (17556 cycles per tick), 128 * 256 =
\* 32768 cycles per tick, and 512 * 256, which does not fit in 16 bits.
DriverTimers == {<<0, 0>>, <<0, 7>>, <<0, 4>>}

\* main passes seconds times CYCLES_PER_SEC.
CYCLES_PER_SEC == 1048576

Init ==
    /\ DiffIdle
    /\ FrontIdle
    /\ \E t \in DriverTimers, secs \in {0, 1}, allow_timeout \in BOOLEAN,
          silence_secs \in {0, 1}, watch \in {None, Watch(\hC000, 1)} :
          SimStart(Header(\hDFFE, t[1], t[2]),
                   Config("Error", secs * CYCLES_PER_SEC, allow_timeout,
                          silence_secs * CYCLES_PER_SEC, watch))

Next ==
    \/ CpuStep(DriverEnv)
    \/ InitReturns
    \/ PlayReturns

Spec == Init /\ [][Next]_vars

\* The driver that probes the address space: it reads and writes one address
\* of every region, pushes, jumps into the I/O registers, and ends its
\* instructions in every way cpu.tick() can.
MemEnv ==
    [instrs |-> {Nop, Ret, PopTwice}
                 \cup {Load(a) : a \in MemAddrs}
                 \cup {Store(a, 1) : a \in MemAddrs}
                 \cup {Store(\h2000, 0)}
                 \cup {Instr(<<"none">>, o, 4, 0, \h0404) :
                          o \in {"Debug", "Break", "Halt", "Stop", "InvalidOpcode"}}
                 \cup {Instr(<<"none">>, "Ok", 4, 65534, \h0404),
                       Instr(<<"none">>, "Ok", 4, 0, \hFF00)},
     max_accesses |-> MaxAccesses,
     last_access_tick |-> MaxTick]

\* A timer of 8 * (256 - 255) = 8 cycles per tick, which a PLAY call of three
\* instructions exceeds, and a song that is cut at the end of its first tick
\* unless the watch stops it there.
InitMem ==
    /\ DiffIdle
    /\ FrontIdle
    /\ \E max_level \in {"Warning", "Note"} :
          SimStart(Header(\hDFFE, 255, 5),
                   Config(max_level, 0, TRUE, CYCLES_PER_SEC, Watch(\hE000, 1)))

NextMem ==
    \/ CpuStep(MemEnv)
    \/ InitReturns
    \/ PlayReturns

SpecMem == InitMem /\ [][NextMem]_vars

\* Two bytes that together set and clear every bit.
ApuBytes == {\h55, \hAA}

\* The driver that programs the APU: it stores either byte to any of the 21
\* sound registers and 16 bytes of wave RAM, and returns.
ApuEnv ==
    [instrs |-> {Ret} \cup {Store(a, d) : a \in ApuRegs, d \in ApuBytes},
     max_accesses |-> MaxAccesses,
     last_access_tick |-> MaxTick]

\* A song without timer that ends at the end of its first tick.
InitApu ==
    /\ DiffIdle
    /\ FrontIdle
    /\ SimStart(Header(\hDFFE, 0, 0), Config("Note", 0, TRUE, 0, None))

NextApu ==
    \/ CpuStep(ApuEnv)
    \/ InitReturns
    \/ PlayReturns

SpecApu == InitApu /\ [][NextApu]_vars

\* Calls of the driver whose instruction the program gives: INIT and the
\* first PLAY ticks; later ticks repeat the last one.
ProgTicks == 2

\* The instruction a call of the driver executes before it returns.
ProgInstrs == {Nop, Store(\hFF10, 1), Store(\hC000, 1), Store(\h2000, 0),
               Instr(<<"none">>, "Halt", 4, 0, \h0404)}

\* The driver whose code is `program`: in call t it executes program[t], then
\* it returns.
ProgramEnv ==
    [instrs |-> IF steps = 0
                THEN {program[IF logger.tick < ProgTicks THEN logger.tick ELSE ProgTicks]}
                ELSE {Ret},
     max_accesses |-> MaxTick + 1,
     last_access_tick |-> MaxTick]

\* A call that keeps the ROM bank the previous call latched.
NewCall_KeepBank(old, fresh) ==
    [fresh EXCEPT !.logger.rom_bank = old.logger.rom_bank]

\* What a call of simulate_song keeps of the machine the previous call left:
\* nothing.
NewCall(old, fresh) == fresh

\* What simulate_song returned.
Returned == [result |-> result, err |-> err, logbook |-> logbook]

\* main calls simulate_song once more, for the same header and song, with
\* max_level = lvl: the first call's preamble again, in the same build.
SimulateAtLevel(lvl) ==
    /\ phase = "done"
    /\ result # "Panic"
    /\ sims = None
    /\ sims' = [max_level |-> cfg.max_level, returned |-> Returned]
    /\ cfg' = [cfg EXCEPT !.max_level = lvl]
    /\ SetMach(NewCall(Mach, FreshMach(gbs, cfg')))
    /\ cpu' = [a |-> cfg.song_id, sp |-> gbs.stack_ptr, pc |-> gbs.init_addr]
    /\ timeout' = cfg.timeout
    /\ total_cycles' = 0
    /\ orig_sp' = gbs.stack_ptr
    /\ steps' = 0
    /\ accesses' = 0
    /\ err' = <<>>
    /\ exit_via' = "none"
    /\ phase' = "INIT"
    /\ result' = "running"
    /\ UNCHANGED <<gbs, cycles_per_tick, diffvars, file, parsed, args, heads,
                   song, failed, report, exit_code, program>>

\* The second call has the configuration of the first.
SimulateAgain == SimulateAtLevel(cfg.max_level)

\* 32768 cycles per tick, so that a budget of one second lasts 32 ticks.
InitTwice ==
    /\ DiffIdle
    /\ \E secs \in {0, 1}, allow_timeout \in BOOLEAN, silence_secs \in {0, 1},
          watch \in {None, Watch(\hC000, 1)} :
          SimStart(Header(\hDFFE, 0, 7),
                   Config("Note", secs * CYCLES_PER_SEC, allow_timeout,
                          silence_secs * CYCLES_PER_SEC, watch))
    /\ program \in [0..ProgTicks -> ProgInstrs]
    /\ file = None
    /\ parsed = None
    /\ args = None
    /\ heads = None
    /\ sims = None
    /\ song = 0
    /\ failed = <<>>
    /\ report = <<>>
    /\ exit_code = <<>>

NextTwice ==
    \/ CpuStep(ProgramEnv)
    \/ InitReturns
    \/ PlayReturns
    \/ SimulateAgain

SpecTwice == InitTwice /\ [][NextTwice]_vars

Levels == {"Error", "Warning", "Note"}

\* Instructions of a driver that is diagnosed at both levels the simulator
\* uses: a write to an APU register, to the hole 0xFF15 (Note), to the joypad
\* register (Warning), a read of the write-only NR13 (Note), a debug opcode
\* (Note).
LevelInstrs == {Store(\hFF10, 1), Store(\hFF15, 1), Store(\hFF00, 1),
                Load(\hFF13), Instr(<<"none">>, "Debug", 4, 0, \h0404)}

\* The same song simulated under one max_level, then under another, at 65024
\* cycles per tick.
InitLevels ==
    /\ DiffIdle
    /\ \E lvl \in Levels :
          SimStart(Header(\hDFFE, 129, 4),
                   Config(lvl, CYCLES_PER_SEC, TRUE, CYCLES_PER_SEC, None))
    /\ program \in [0..ProgTicks -> LevelInstrs]
    /\ file = None
    /\ parsed = None
    /\ args = None
    /\ heads = None
    /\ sims = None
    /\ song = 0
    /\ failed = <<>>
    /\ report = <<>>
    /\ exit_code = <<>>

NextLevels ==
    \/ CpuStep(ProgramEnv)
    \/ InitReturns
    \/ PlayReturns
    \/ \E lvl \in Levels : SimulateAtLevel(lvl)

SpecLevels == InitLevels /\ [][NextLevels]_vars

\* The state run_func is in after n iterations of its loop on an instruction
\* that takes 4 cycles, touches nothing and jumps to 0x0404 (n >= 2, none of
\* the checks failing): [m, cpu, total_cycles]
NopRun(m, c, total, n) ==
    [m |-> [m EXCEPT !.logger.pc = \h0404, !.logger.cycle = WrapAdd16(@, 4 * n)],
     cpu |-> [c EXCEPT !.pc = \h0404],
     total_cycles |-> total + 4 * n]

\* Iterations of a delay loop: 65528 cycles, 8 short of the 16-bit limit.
SpinLen == 16382

\* The driver runs its delay loop at the start of a call.
Spin ==
    /\ phase \in {"INIT", "PLAY"}
    /\ result = "running"
    /\ steps = 0
    /\ total_cycles = 0
    /\ FrameLive(cpu.sp, orig_sp)
    /\ ~Haywire(cpu.pc)
    /\ ~Haywire(cpu.sp)
    /\ LET r == NopRun(Mach, cpu, total_cycles, SpinLen)
       IN  /\ SetMach(r.m)
           /\ cpu' = r.cpu
           /\ total_cycles' = r.total_cycles
    /\ UNCHANGED <<gbs, cfg, cycles_per_tick, timeout, orig_sp, exit_via, steps,
                   accesses, phase, result, err, diffvars, frontvars>>

\* Stack pointers of the header: in work RAM, below 0x8000, at the top of
\* high RAM (the return pops to 0x0000), among the I/O registers and just
\* above them.
FrameStacks == {\hDFFE, \h7FFE, \hFFFE, \hFF40, \hFF80}

\* The driver that probes run_func: it returns, pops too much, pushes, moves
\* SP by -128 (add sp, -128) or to 0x7000 from 0xDFFE, jumps into the I/O
\* registers, calls into them (a push and a jump), takes 3 or 4 cycles, and
\* ends its instructions in every way cpu.tick() can.
FrameEnv ==
    [instrs |-> {Nop, Ret, PopTwice}
                 \cup {Instr(<<"none">>, "Ok", 4, d, \h0404) : d \in {65534, 65408, 36866}}
                 \cup {Instr(<<"none">>, "Ok", 3, 0, \h0404),
                       Instr(<<"none">>, "Ok", 4, 0, \hFF00),
                       Instr(<<"none">>, "Ok", 4, 0, \hFF7F),
                       Instr(<<"none">>, "Ok", 4, 65534, \hFF7F)}
                 \cup {Instr(<<"none">>, o, 4, 0, \h0404) :
                          o \in {"Debug", "Break", "Halt", "Stop", "InvalidOpcode"}},
     max_accesses |-> 0,
     last_access_tick |-> MaxTick]

\* 17556 cycles per tick and no budget: the song is cut at the end of its
\* first tick.
InitFrame ==
    /\ DiffIdle
    /\ FrontIdle
    /\ \E sp \in FrameStacks, allow_timeout \in BOOLEAN :
          SimStart(Header(sp, 0, 0),
                   Config("Note", 0, allow_timeout, CYCLES_PER_SEC, None))

NextFrame ==
    \/ CpuStep(FrameEnv)
    \/ Spin
    \/ InitReturns
    \/ PlayReturns

SpecFrame == InitFrame /\ [][NextFrame]_vars

\* The instruction the program gives for the call in progress.
Programmed == program[IF logger.tick < ProgTicks THEN logger.tick ELSE ProgTicks]

\* First instructions of a call that end in every way cpu.tick() can, or
\* write to ROM, or return.
OutcomeInstrs ==
    {Instr(<<"none">>, o, 4, 0, \h0404) :
        o \in {"Ok", "Debug", "Break", "Halt", "Stop", "InvalidOpcode"}}
        \cup {Store(\h0000, 1), Ret}

\* The driver whose calls start with the programmed instruction and go on
\* with one more instruction or none before they return.
OutcomeEnv ==
    [instrs |-> IF steps = 0 THEN {Programmed} ELSE {Nop, Ret},
     max_accesses |-> MaxTick + 1,
     last_access_tick |-> MaxTick]

\* 8 cycles per tick, which a call of one instruction stays below, a call of
\* two meets and a call of three exceeds, and no budget: the song is cut at
\* the end of its first tick, by silence when silence needs no time.
InitOutcomes ==
    /\ DiffIdle
    /\ \E allow_timeout \in BOOLEAN, max_level \in {"Warning", "Note"},
          silence_secs \in {0, 1} :
          SimStart(Header(\hDFFE, 255, 5),
                   Config(max_level, 0, allow_timeout,
                          silence_secs * CYCLES_PER_SEC, None))
    /\ program \in [0..ProgTicks -> OutcomeInstrs]
    /\ file = None
    /\ parsed = None
    /\ args = None
    /\ heads = None
    /\ sims = None
    /\ song = 0
    /\ failed = <<>>
    /\ report = <<>>
    /\ exit_code = <<>>

NextOutcomes ==
    \/ CpuStep(OutcomeEnv)
    \/ InitReturns
    \/ PlayReturns

SpecOutcomes == InitOutcomes /\ [][NextOutcomes]_vars

\* Payloads: 32 bytes, and 0x7C20 bytes, which from 0x0400 fill the low
\* window and bank 1 and reach 32 bytes into bank 2. Byte i is 7i + 3 mod 256.
SmallRom == [i \in 1..32 |-> (7 * (i - 1) + 3) % 256]

BigRom == [i \in 1..31776 |-> (7 * (i - 1) + 3) % 256]

\* A header that Gbs::new accepts, loaded at `load`.
SpaceHeader(load, rom) ==
    [load_addr |-> load, init_addr |-> load, play_addr |-> load + 4,
     stack_ptr |-> \hDFFE, timer_mod |-> 0, timer_ctrl |-> 0, rom |-> rom]

SpaceHeaders ==
    {SpaceHeader(\h0400, SmallRom), SpaceHeader(\h3FF0, SmallRom),
     SpaceHeader(\h4000, SmallRom), SpaceHeader(\h0400, BigRom)}

\* Accesses of the driver that probes ROM and RAM: the bank latch at both
\* ends, with 0 and 2; the ROM windows at both ends; the first and last cell
\* of SRAM, WRAM and HRAM, the echo of WRAM at both ends, written with either
\* byte; a read of WRAM and of its echo.
SpaceInstrs ==
    {Store(a, d) : a \in {\h2000, \h3FFF}, d \in {0, 2}}
        \cup {Store(a, 1) : a \in {\h0000, \h1FFF, \h4000, \h7FFF}}
        \cup {Store(a, d) : a \in {\hA000, \hBFFF, \hC000, \hDDFF, \hDFFF, \hE000,
                                   \hFDFF, \hFF80, \hFFFE},
                            d \in {\h55, \hAA}}
        \cup {Load(a) : a \in {\h0400, \h4000, \hC000, \hE000, \hFDFF}}

\* The song is cut at the end of its first tick: INIT and one PLAY call, each
\* of one programmed access and the return. The code of the later calls is
\* never executed, and is fixed.
InitSpace ==
    /\ DiffIdle
    /\ \E g \in SpaceHeaders :
          SimStart(g, Config("Note", 0, TRUE, CYCLES_PER_SEC, None))
    /\ program \in [0..ProgTicks -> SpaceInstrs]
    /\ \A t \in 2..ProgTicks : program[t] = Load(\h0400)
    /\ file = None
    /\ parsed = None
    /\ args = None
    /\ heads = None
    /\ sims = None
    /\ song = 0
    /\ failed = <<>>
    /\ report = <<>>
    /\ exit_code = <<>>

NextSpace ==
    \/ CpuStep(ProgramEnv)
    \/ InitReturns
    \/ PlayReturns

SpecSpace == InitSpace /\ [][NextSpace]_vars

\* Instructions of 4, 8 and 12 cycles that store a record or none: an APU
\* write, a ROM write (Warning), an echo read (Note), a debug opcode (Note).
StampInstrs ==
    {Nop, Ret,
     Instr(<<"none">>, "Ok", 12, 0, \h0404),
     Instr(<<"write", \hFF10, 1>>, "Ok", 8, 0, \h0404),
     Store(\h0000, 1),
     Instr(<<"read", \hE000>>, "Ok", 12, 0, \h0404),
     Instr(<<"none">>, "Debug", 4, 0, \h0404)}

\* The driver whose every call runs `program` from its first instruction; the
\* last instruction of the program returns.
SequenceEnv ==
    [instrs |-> {program[IF steps < ProgTicks THEN steps ELSE ProgTicks]},
     max_accesses |-> (MaxTick + 1) * (ProgTicks + 1),
     last_access_tick |-> MaxTick]

\* A song of 65024 cycles per tick, cut by silence or by the budget of one
\* second.
InitStamps ==
    /\ DiffIdle
    /\ SimStart(Header(\hDFFE, 129, 4),
                Config("Note", CYCLES_PER_SEC, TRUE, CYCLES_PER_SEC, None))
    /\ program \in [0..ProgTicks -> StampInstrs]
    /\ program[ProgTicks] = Ret
    /\ file = None
    /\ parsed = None
    /\ args = None
    /\ heads = None
    /\ sims = None
    /\ song = 0
    /\ failed = <<>>
    /\ report = <<>>
    /\ exit_code = <<>>

NextStamps ==
    \/ CpuStep(SequenceEnv)
    \/ InitReturns
    \/ PlayReturns

SpecStamps == InitStamps /\ [][NextStamps]_vars

-----------------------------------------------------------------------------
(* Properties of the simulator                                             *)

\* C1: every IoAccess of the io_log of a logbook that simulate_song returns
\* has 0xFF10 <= addr <= 0xFF3F, whatever addresses the CPU writes to.
C1_IoLogInApuBand ==
    result = "Ok" =>
    \A k \in 1..Len(logbook.io_log) : logbook.io_log[k].addr \in \hFF10..\hFF3F

\* C2: in every state of a simulation, io_log and diagnostics are
\* non-decreasing in their (tick, cycle) timestamps, compared
\* lexicographically.
C2_LogsNonDecreasing ==
    /\ NonDecreasing(logbook.io_log)
    /\ NonDecreasing(logbook.diagnostics)

\* Both logs hold a record of INIT at a later cycle than the record of the
\* first PLAY tick that follows it.
CycleDrops(s) ==
    \E k \in 1..(Len(s) - 1) :
        /\ s[k].when.tick < s[k + 1].when.tick
        /\ s[k].when.cycle > s[k + 1].when.cycle

C2_Witness ==
    /\ CycleDrops(logbook.io_log)
    /\ CycleDrops(logbook.diagnostics)
    /\ result = "Ok"

\* The end of a PLAY tick: the call of run_func returned normally and the
\* termination checks are about to run.
TickEnds ==
    /\ phase = "PLAY"
    /\ result = "running"
    /\ ~FrameLive(cpu.sp, orig_sp)
    /\ FrameReturned(cpu.sp, orig_sp)

SilenceFires == silence_timer >= cfg.silence_timeout

WatchHolds ==
    /\ cfg.watch # None
    /\ AddrRead(Mach, cfg.watch.addr).val = cfg.watch.value

\* C5: for every timer configuration of the header the song starts, and every
\* tick end that goes round the loop again has added silent cycles to the
\* silence timer, so that a driver that no longer writes to the APU reaches
\* silence_timeout after finitely many ticks.
C5_QuietTicksAddSilentCycles ==
    /\ result # "Panic"
    /\ (phase = "PLAY" /\ logger.tick >= 2 /\ steps = 0) => silence_timer > 0

\* C6: the termination checks run in the order silence, watch, timeout: at a
\* tick end where the timeout budget would underflow, a silence that fires or
\* a watch that holds ends the song with Ok, whatever allow_timeout is.
C6_SilenceWatchBeforeTimeout ==
    [][(TickEnds /\ timeout < cycles_per_tick)
          => /\ SilenceFires => (result' = "Ok" /\ exit_via' = "silence")
             /\ (~SilenceFires /\ WatchHolds) => (result' = "Ok" /\ exit_via' = "watch")]_vars

C6_Witness ==
    /\ result = "Ok"
    /\ exit_via = "watch"
    /\ ~cfg.allow_timeout
    /\ timeout < cycles_per_tick

\* C7: Timeout is returned only when allow_timeout is false, and exactly at
\* the end of a tick where neither silence nor watch fired and the budget is
\* strictly less than cycles_per_tick; with allow_timeout the same tick end
\* returns Ok with the logbook; a budget equal to cycles_per_tick does not
\* time out in that tick.
C7_TimeoutOnlyOnUnderflow ==
    [][LET underflow == /\ TickEnds
                        /\ ~SilenceFires
                        /\ ~WatchHolds
                        /\ timeout < cycles_per_tick
       IN  /\ (result # "Timeout" /\ result' = "Timeout")
                  <=> (underflow /\ ~cfg.allow_timeout)
           /\ (underflow /\ cfg.allow_timeout)
                  => (result' = "Ok" /\ exit_via' = "timeout"
                        /\ logbook'.io_log = logbook.io_log)
           /\ (TickEnds /\ timeout = cycles_per_tick)
                  => (result' # "Timeout" /\ exit_via' # "timeout")]_vars

\* A song of cycles_per_tick = 32768 and a budget of one second: the budget
\* equals cycles_per_tick at the end of tick 32, and underflows at the end of
\* tick 33.
C7_Witness ==
    /\ result = "Timeout"
    /\ cycles_per_tick > 0
    /\ logger.tick * cycles_per_tick > CYCLES_PER_SEC
    /\ (logger.tick - 1) * cycles_per_tick = CYCLES_PER_SEC

-----------------------------------------------------------------------------
(* Difference generator (src/diff.rs)                                      *)

\* slice.get(k) with a 0-based index
Get(s, k) == IF k < Len(s) THEN s[k + 1] ELSE None

\* A diagnostic stamped with the access's when and a fixed pc.
DiffDiagnose_FixedPc(access, level, kind) ==
    Diagnostic(access.when, Address(1, 1024), level, kind)

\* diff::diagnose: the diagnostic is stamped with the access's when and pc.
DiffDiagnose(access, level, kind) ==
    Diagnostic(access.when, access.pc, level, kind)

\* `before == after`: IoAccess derives PartialEq over all four of its fields
\* (when, pc, addr, data).
ExactMatch_Inverted(before, after) == ~(before = after)

ExactMatch(before, after) ==
    /\ before.when = after.when
    /\ before.pc = after.pc
    /\ before.addr = after.addr
    /\ before.data = after.data

AbsDiff(x, y) == IF x >= y THEN x - y ELSE y - x

MovedLevel_LE(before, after, jit) ==
    IF AbsDiff(before.when.cycle, after.when.cycle) <= jit THEN "Note" ELSE "Error"

MovedLevel(before, after, jit) ==
    IF AbsDiff(before.when.cycle, after.when.cycle) < jit THEN "Note" ELSE "Error"

MovedDelta_Abs(before, after) == AbsDiff(after.when.cycle, before.when.cycle)

\* (after.cycle as i32).wrapping_sub(before.cycle as i32): both operands are u16
\* widened to i32, so the difference lies in -65535..65535 and never wraps.
MovedDelta(before, after) == after.when.cycle - before.when.cycle

\* The lookahead that tries the after log first.
Lookahead_AfterFirst(B, A, i, j) ==
    LET before == Get(B, i)
        after == Get(A, j)
        before2 == Get(B, i + 1)
        after2 == Get(A, j + 1)
    IN  IF after2 # None /\ before.addr = after2.addr THEN "after"
        ELSE IF before2 # None /\ before2.addr = after.addr THEN "before"
        ELSE IF before.when.cycle < after.when.cycle THEN "before"
        ELSE "after"

\* The lookahead with its two answers exchanged.
Lookahead_Swapped(B, A, i, j) ==
    LET before == Get(B, i)
        after == Get(A, j)
        before2 == Get(B, i + 1)
        after2 == Get(A, j + 1)
    IN  IF before2 # None /\ before2.addr = after.addr THEN "after"
        ELSE IF after2 # None /\ before.addr = after2.addr THEN "before"
        ELSE IF before.when.cycle < after.when.cycle THEN "before"
        ELSE "after"

\* The (false, false) arm: one-step lookahead, then the earlier of the two.
\* Returns which side is reported: "before" (Removed) or "after" (Added).
Lookahead(B, A, i, j) ==
    LET before == Get(B, i)
        after == Get(A, j)
        before2 == Get(B, i + 1)
        after2 == Get(A, j + 1)
    IN  IF before2 # None /\ before2.addr = after.addr THEN "before"
        ELSE IF after2 # None /\ before.addr = after2.addr THEN "after"
        ELSE IF before.when.cycle < after.when.cycle THEN "before"
        ELSE "after"

\* Removed that advances both cursors.
Removed_BothCursors(before, i, j) ==
    [indices |-> <<i + 1, j + 1>>, again |-> FALSE,
     item |-> DiffDiagnose(before, "Error", <<"Removed", before.addr, before.data>>)]

\* The outcomes of one iteration of the loop in next().
Removed(before, i, j) ==
    [indices |-> <<i + 1, j>>, again |-> FALSE,
     item |-> DiffDiagnose(before, "Error", <<"Removed", before.addr, before.data>>)]

\* Added that moves the after cursor by two.
Added_SkipTwo(after, i, j) ==
    [indices |-> <<i, j + 2>>, again |-> FALSE,
     item |-> DiffDiagnose(after, "Error", <<"Added", after.addr, after.data>>)]

Added_AsRemoved(after, i, j) ==
    [indices |-> <<i, j + 1>>, again |-> FALSE,
     item |-> DiffDiagnose(after, "Error", <<"Removed", after.addr, after.data>>)]

Added(after, i, j) ==
    [indices |-> <<i, j + 1>>, again |-> FALSE,
     item |-> DiffDiagnose(after, "Error", <<"Added", after.addr, after.data>>)]

\* Paired that leaves the before cursor where it is.
Paired_KeepBefore(after, level, kind, i, j) ==
    [indices |-> <<i, j + 1>>, again |-> FALSE,
     item |-> DiffDiagnose(after, level, kind)]

Paired(after, level, kind, i, j) ==
    [indices |-> <<i + 1, j + 1>>, again |-> FALSE,
     item |-> DiffDiagnose(after, level, kind)]

\* An iteration that reports the access of the later tick first.
DiffStep_LaterTickFirst(B, A, jit, i, j) ==
    LET before == Get(B, i)
        after == Get(A, j)
    IN  CASE before = None /\ after = None ->
               [indices |-> <<i, j>>, again |-> FALSE, item |-> None]
          [] before # None /\ after = None -> Removed(before, i, j)
          [] before = None /\ after # None -> Added(after, i, j)
          [] OTHER ->
               IF before.when.tick > after.when.tick THEN Removed(before, i, j)
               ELSE IF before.when.tick < after.when.tick THEN Added(after, i, j)
               ELSE IF ExactMatch(before, after)
                    THEN [indices |-> <<i + 1, j + 1>>, again |-> TRUE, item |-> None]
               ELSE IF before.addr = after.addr /\ before.data = after.data
                    THEN Paired(after, MovedLevel(before, after, jit),
                                <<"Moved", before.addr, before.data,
                                  MovedDelta(before, after)>>, i, j)
               ELSE IF before.addr = after.addr
                    THEN Paired(after, "Error",
                                <<"OtherValue", before.addr, before.data, after.data>>,
                                i, j)
               ELSE IF before.data = after.data
                    THEN Paired(after, "Error",
                                <<"OtherReg", before.addr, before.data, after.addr>>,
                                i, j)
               ELSE IF Lookahead(B, A, i, j) = "before" THEN Removed(before, i, j)
               ELSE Added(after, i, j)

\* One iteration of the loop in DiffGenerator::next.
DiffStep(B, A, jit, i, j) ==
    LET before == Get(B, i)
        after == Get(A, j)
    IN  CASE before = None /\ after = None ->
               [indices |-> <<i, j>>, again |-> FALSE, item |-> None]
          [] before # None /\ after = None -> Removed(before, i, j)
          [] before = None /\ after # None -> Added(after, i, j)
          [] OTHER ->
               IF before.when.tick < after.when.tick THEN Removed(before, i, j)
               ELSE IF before.when.tick > after.when.tick THEN Added(after, i, j)
               ELSE IF ExactMatch(before, after)
                    THEN [indices |-> <<i + 1, j + 1>>, again |-> TRUE, item |-> None]
               ELSE IF before.addr = after.addr /\ before.data = after.data
                    THEN Paired(after, MovedLevel(before, after, jit),
                                <<"Moved", before.addr, before.data,
                                  MovedDelta(before, after)>>, i, j)
               ELSE IF before.addr = after.addr
                    THEN Paired(after, "Error",
                                <<"OtherValue", before.addr, before.data, after.data>>,
                                i, j)
               ELSE IF before.data = after.data
                    THEN Paired(after, "Error",
                                <<"OtherReg", before.addr, before.data, after.addr>>,
                                i, j)
               ELSE IF Lookahead(B, A, i, j) = "before" THEN Removed(before, i, j)
               ELSE Added(after, i, j)

\* DiffGenerator::next: iterate until an item is produced or both logs end.
RECURSIVE IterNext(_, _, _, _, _)
IterNext(B, A, jit, i, j) ==
    LET s == DiffStep(B, A, jit, i, j)
    IN  IF s.again THEN IterNext(B, A, jit, s.indices[1], s.indices[2]) ELSE s

\* The whole sequence an iterator over (B, A) yields, from cursors (i, j).
RECURSIVE Collect(_, _, _, _, _)
Collect(B, A, jit, i, j) ==
    LET s == IterNext(B, A, jit, i, j)
    IN  IF s.item = None THEN <<>>
        ELSE <<s.item>> \o Collect(B, A, jit, s.indices[1], s.indices[2])

-----------------------------------------------------------------------------
(* Inputs of the difference generator                                      *)

MaxLogLen == 2

\* Two pcs, two registers (NR12, NR13) and two data bytes.
DiffPcs == {Address(1, 1024), Address(1, 1040)}

DiffAddrs == {65298, 65299}

DiffData == {64, 240}

\* Cycles within a tick: 15 apart, against jitters of 0, 15 and 20.
DiffCycles == {10, 25}

Jitters == {0, 15, 20}

\* The generator only relates the access of one log to the access of the other
\* (equal or different tick, cycle, pc, addr, data), so the before log is drawn
\* with one pc and one data byte and the after log varies every field against
\* it. Tick 2 holds one write per register.
BeforeAccesses ==
    {IoAccess(Timestamp(1, c), Address(1, 1024), a, 64) : c \in DiffCycles, a \in DiffAddrs}
        \cup {IoAccess(Timestamp(2, 10), Address(1, 1024), a, 64) : a \in DiffAddrs}

AfterAccesses ==
    {IoAccess(Timestamp(1, c), p, a, d) :
        c \in DiffCycles, p \in DiffPcs, a \in DiffAddrs, d \in DiffData}
        \cup {IoAccess(Timestamp(2, 10), Address(1, 1024), a, 64) : a \in DiffAddrs}

\* The logs a simulation can produce are appended in time order.
LogsOver(universe) ==
    {s \in UNION {[1..n -> universe] : n \in 0..MaxLogLen} : NonDecreasing(s)}

DiffInit ==
    /\ SimIdle
    /\ FrontIdle
    /\ logs \in LogsOver(BeforeAccesses) \X LogsOver(AfterAccesses)
    /\ jitter \in Jitters
    /\ indices = <<0, 0>>
    /\ emitted = <<>>
    /\ ended = FALSE

\* One call of next() by the consumer.
DiffNext ==
    LET s == IterNext(logs[1], logs[2], jitter, indices[1], indices[2])
    IN  /\ indices' = s.indices
        /\ emitted' = IF s.item = None THEN emitted ELSE Append(emitted, s.item)
        /\ ended' = (s.item = None)
        /\ UNCHANGED <<logs, jitter, simvars, frontvars>>

SpecDiff == DiffInit /\ [][DiffNext]_vars

\* The consumer keeps pulling: for ... in DiffGenerator, until next() is None.
SpecDiffLive == SpecDiff /\ WF_vars(DiffNext)

\* Three registers (NR12, NR13, NR14) for the logs of the lookahead.
LookaheadAddrs == {65298, 65299, 65300}

\* The logs B = [(X,1),(Y,2)] and A = [(Z,3),(Y,2)] of one tick, for pairwise
\* distinct registers X, Y, Z: the first writes at distinct cycles, the writes
\* of Y identical and not earlier than the first writes.
LookaheadInit ==
    /\ SimIdle
    /\ FrontIdle
    /\ \E X \in LookaheadAddrs, Y \in LookaheadAddrs, Z \in LookaheadAddrs,
          cb \in DiffCycles, ca \in DiffCycles, cy \in {25, 40}, pz \in DiffPcs :
          /\ X # Y /\ Y # Z /\ X # Z
          /\ cb # ca
          /\ logs = <<<<IoAccess(Timestamp(1, cb), Address(1, 1024), X, 1),
                        IoAccess(Timestamp(1, cy), Address(1, 1024), Y, 2)>>,
                      <<IoAccess(Timestamp(1, ca), pz, Z, 3),
                        IoAccess(Timestamp(1, cy), Address(1, 1024), Y, 2)>>>>
    /\ jitter \in Jitters
    /\ indices = <<0, 0>>
    /\ emitted = <<>>
    /\ ended = FALSE

SpecLookahead == LookaheadInit /\ [][DiffNext]_vars

-----------------------------------------------------------------------------
(* Properties of the difference generator                                  *)

Before == logs[1]
After == logs[2]

\* The (level, kind) pairs of a sequence of diagnostics.
LevelKinds(ds) == [k \in 1..Len(ds) |-> <<ds[k].level, ds[k].kind>>]

\* A diff diagnostic read with before and after exchanged.
MirrorKind(kind) ==
    CASE kind[1] = "Removed" -> <<"Added", kind[2], kind[3]>>
      [] kind[1] = "Added" -> <<"Removed", kind[2], kind[3]>>
      [] kind[1] = "Moved" -> <<"Moved", kind[2], kind[3], 0 - kind[4]>>
      [] kind[1] = "OtherValue" -> <<"OtherValue", kind[2], kind[4], kind[3]>>
      [] kind[1] = "OtherReg" -> <<"OtherReg", kind[4], kind[3], kind[2]>>

MirrorLevelKinds(ds) == [k \in 1..Len(ds) |-> <<ds[k].level, MirrorKind(ds[k].kind)>>]

\* The (false, false) arm decides by a rule that is not symmetric in the two
\* logs: both lookaheads match, or neither does and the cycles are equal.
TieAt(B, A, i, j) ==
    LET before == Get(B, i)
        after == Get(A, j)
        before2 == Get(B, i + 1)
        after2 == Get(A, j + 1)
    IN  IF before = None \/ after = None THEN FALSE
        ELSE /\ before.when.tick = after.when.tick
             /\ before.addr # after.addr
             /\ before.data # after.data
             /\ LET la1 == IF before2 = None THEN FALSE ELSE before2.addr = after.addr
                    la2 == IF after2 = None THEN FALSE ELSE before.addr = after2.addr
                IN  \/ la1 /\ la2
                    \/ ~la1 /\ ~la2 /\ before.when.cycle = after.when.cycle

\* Some iteration of the run over (B, A) from cursors (i, j) meets a tie.
RECURSIVE TieOnPath(_, _, _, _, _)
TieOnPath(B, A, jit, i, j) ==
    LET s == DiffStep(B, A, jit, i, j)
    IN  \/ TieAt(B, A, i, j)
        \/ /\ s.indices # <<i, j>>
           /\ TieOnPath(B, A, jit, s.indices[1], s.indices[2])

\* C3 (as stated): for all logs and every jitter, the diff of (A, B) is the diff
\* of (B, A) with Removed and Added exchanged, Moved.delta negated and the
\* arguments of OtherValue and OtherReg swapped, same order, same levels.
C3_SwapMirrors ==
    ended => LevelKinds(emitted) = MirrorLevelKinds(Collect(After, Before, jitter, 0, 0))

\* C3 (amended): the same, for every pair of logs whose diff never reaches a
\* same-tick pair differing in both addr and data on which both lookaheads
\* match, or neither matches and the two cycles are equal.
C3_SwapMirrorsWithoutTie ==
    (ended /\ ~TieOnPath(Before, After, jitter, 0, 0))
        => LevelKinds(emitted) = MirrorLevelKinds(Collect(After, Before, jitter, 0, 0))

C3_Witness ==
    /\ ended
    /\ ~TieOnPath(Before, After, jitter, 0, 0)
    /\ \E k \in 1..Len(emitted) : emitted[k].kind[1] = "Moved" /\ emitted[k].kind[4] # 0
    /\ \E k \in 1..Len(emitted) : emitted[k].kind[1] = "Removed"

\* The two accesses at the cursors are the same write at the same time: same
\* tick, addr, data and cycle (their pcs are not compared).
SameWriteAtCursors ==
    LET before == Get(Before, indices[1])
        after == Get(After, indices[2])
    IN  IF before = None \/ after = None THEN FALSE
        ELSE /\ before.when.tick = after.when.tick
             /\ before.when.cycle = after.when.cycle
             /\ before.addr = after.addr
             /\ before.data = after.data

\* C4: the step at the cursors is silent (no diagnostic, both cursors advance)
\* exactly when the two accesses are in the same tick and have equal addr,
\* data and cycle, whatever their pcs.
C4_SilentIffSameWrite ==
    LET s == DiffStep(Before, After, jitter, indices[1], indices[2])
    IN  /\ SameWriteAtCursors =>
              /\ s.again
              /\ s.item = None
              /\ s.indices = <<indices[1] + 1, indices[2] + 1>>
        /\ s.again => SameWriteAtCursors

\* C8: diffing two identical logs yields the empty sequence, for every length
\* and every jitter: the first request consumes both logs and returns the end.
C8_IdenticalLogsEmpty ==
    (Before = After) =>
        /\ emitted = <<>>
        /\ \/ indices = <<0, 0>> /\ ~ended
           \/ indices = <<Len(Before), Len(After)>> /\ ended

C8_Witness ==
    /\ ended
    /\ Before = After
    /\ Len(Before) >= 2
    /\ jitter = 0

\* After is Before with one more write at its end.
OneAppended ==
    /\ Len(After) = Len(Before) + 1
    /\ SubSeq(After, 1, Len(Before)) = Before

\* C9: if A is B with one extra write w appended, the diff of (B, A) is exactly
\* one diagnostic, Error Added(w.addr, w.data), stamped with w's when and pc.
C9_AppendedYieldsOneAdded ==
    (ended /\ OneAppended) =>
        LET w == After[Len(After)]
        IN  emitted = <<Diagnostic(w.when, w.pc, "Error", <<"Added", w.addr, w.data>>)>>

C9_Witness ==
    /\ ended
    /\ OneAppended
    /\ Len(Before) >= 1
    /\ After[Len(After)].when.tick = Before[Len(Before)].when.tick

\* Position k is the only one where the logs differ, and there only the cycle
\* differs.
OnlyCycleDiffersAt(k) ==
    /\ Len(Before) = Len(After)
    /\ k \in 1..Len(Before)
    /\ \A m \in 1..Len(Before) : m # k => Before[m] = After[m]
    /\ Before[k].when.tick = After[k].when.tick
    /\ Before[k].when.cycle # After[k].when.cycle
    /\ Before[k].pc = After[k].pc
    /\ Before[k].addr = After[k].addr
    /\ Before[k].data = After[k].data

\* C10: two logs equal except for the cycle of one paired access yield exactly
\* one diagnostic Moved(addr, data, a.cycle - b.cycle), Note if
\* |a.cycle - b.cycle| < jitter and Error otherwise.
C10_MovedJitterBoundary ==
    ended =>
        \A k \in 1..Len(Before) :
            OnlyCycleDiffersAt(k) =>
                LET b == Before[k]
                    a == After[k]
                    d == a.when.cycle - b.when.cycle
                    lvl == IF (IF d < 0 THEN 0 - d ELSE d) < jitter
                           THEN "Note" ELSE "Error"
                IN  emitted =
                        <<Diagnostic(a.when, a.pc, lvl, <<"Moved", a.addr, a.data, d>>)>>

\* A displacement equal to the jitter, moved earlier, in a log of two writes.
C10_Witness ==
    /\ ended
    /\ jitter = 15
    /\ Len(Before) = 2
    /\ OnlyCycleDiffersAt(1)
    /\ emitted[1].level = "Error"
    /\ emitted[1].kind[4] = 0 - 15

\* The diagnostics the lookahead logs are expected to yield.
RemovedFirst == DiffDiagnose(Before[1], "Error", <<"Removed", Before[1].addr, 1>>)

AddedFirst == DiffDiagnose(After[1], "Error", <<"Added", After[1].addr, 3>>)

\* C11: for B = [(X,1),(Y,2)] and A = [(Z,3),(Y,2)] the diff is exactly Error
\* Removed(X,1) followed by Error Added(Z,3), whichever of the first writes is
\* the earlier one, and the Y pair produces nothing.
C11_RemovedThenAdded ==
    ended => emitted = <<RemovedFirst, AddedFirst>>

\* C11, amended: the diff is exactly Error Removed(X,1) and Error Added(Z,3),
\* the one of the earlier first write first, and the Y pair produces nothing.
C11_EarlierFirst ==
    ended =>
        emitted = IF Before[1].when.cycle < After[1].when.cycle
                  THEN <<RemovedFirst, AddedFirst>>
                  ELSE <<AddedFirst, RemovedFirst>>

C11_Witness ==
    /\ ended
    /\ After[1].when.cycle < Before[1].when.cycle
    /\ Before[2].when.cycle = Before[1].when.cycle
    /\ indices = <<2, 2>>

\* The cursors of the iteration of next() that follows the silent ones.
RECURSIVE SkipSilent(_, _)
SkipSilent(i, j) ==
    LET before == Get(Before, i)
        after == Get(After, j)
    IN  IF before # None /\ after # None /\ before = after
        THEN SkipSilent(i + 1, j + 1)
        ELSE <<i, j>>

\* C12: when the two accesses at the cursors are in the same tick and differ in
\* exactly one of addr and data, next() emits exactly one Error diagnostic,
\* OtherValue(addr, b.data, a.data) or OtherReg(b.addr, data, a.addr), stamped
\* with the after access, and advances both cursors, whatever the cycles are.
C12_OtherValueOtherReg ==
    [][LET c == SkipSilent(indices[1], indices[2])
           before == Get(Before, c[1])
           after == Get(After, c[2])
       IN  (/\ before # None
            /\ after # None
            /\ before.when.tick = after.when.tick
            /\ (before.addr = after.addr) # (before.data = after.data))
           => /\ indices' = <<c[1] + 1, c[2] + 1>>
              /\ emitted' =
                    Append(emitted,
                           Diagnostic(after.when, after.pc, "Error",
                                      IF before.addr = after.addr
                                      THEN <<"OtherValue", before.addr, before.data,
                                             after.data>>
                                      ELSE <<"OtherReg", before.addr, before.data,
                                             after.addr>>))]_vars

C12_Witness ==
    /\ Len(emitted) = 2
    /\ emitted[1].kind[1] = "OtherValue"
    /\ emitted[2].kind[1] = "OtherReg"
    /\ Before[1].when.cycle # After[1].when.cycle
    /\ Before[2].when.cycle = After[2].when.cycle
    /\ indices = <<2, 2>>

-----------------------------------------------------------------------------
(* Header parser (src/gbs.rs)                                              *)

\* Gbs::HEADER_LEN
HEADER_LEN == 112

\* Gbs::MIN_ROM_ADDR
MIN_ROM_ADDR == 1024

\* b"GBS"
Magic == <<71, 66, 83>>

\* AddressKind::ofs
Ofs(kind) ==
    CASE kind = "Load" -> 6
      [] kind = "Init" -> 8
      [] kind = "Play" -> 10

\* The byte at offset `ofs` of a file whose header holds the fields `h`, with
\* its 16-bit addresses stored little-endian; the title, author and copyright
\* fields and the ROM are zero bytes.
FileByte(h, ofs) ==
    CASE ofs \in 0..2 -> h.magic[ofs + 1]
      [] ofs = 3 -> h.version
      [] ofs = 4 -> h.nb_songs
      [] ofs = 5 -> h.first_song
      [] ofs = 6 -> h.load % 256
      [] ofs = 7 -> h.load \div 256
      [] ofs = 8 -> h.init % 256
      [] ofs = 9 -> h.init \div 256
      [] ofs = 10 -> h.play % 256
      [] ofs = 11 -> h.play \div 256
      [] ofs = 12 -> h.stack_ptr % 256
      [] ofs = 13 -> h.stack_ptr \div 256
      [] ofs = 14 -> h.timer_mod
      [] ofs = 15 -> h.timer_ctrl
      [] OTHER -> 0

\* The first `len` bytes of that file.
FileData(h, len) == [k \in 1..len |-> FileByte(h, k - 1)]

\* Gbs::read16: u16::from_le_bytes of the bytes at ofs and ofs + 1
Read16(data, ofs) == data[ofs + 1] + 256 * data[ofs + 2]

\* Gbs::addr
Addr(data, kind) == Read16(data, Ofs(kind))

\* A load address test that leaves 0x4000 out.
LoadAddrOk_Exclusive(load_addr) == load_addr >= MIN_ROM_ADDR /\ load_addr < \h4000

\* (Self::MIN_ROM_ADDR..=0x4000).contains(&load_addr)
LoadAddrOk(load_addr) == load_addr >= MIN_ROM_ADDR /\ load_addr <= \h4000

\* (load_addr..0x8000).contains(&addr)
CodeAddrOk(load_addr, addr) == addr >= load_addr /\ addr < \h8000

FormatError(kind, fields) == [ok |-> FALSE, kind |-> kind, fields |-> fields]

\* Gbs::new
GbsNew(data) ==
    IF Len(data) < HEADER_LEN THEN FormatError("TruncatedHeader", <<Len(data)>>)
    ELSE IF SubSeq(data, 1, 3) # Magic THEN FormatError("BadMagic", SubSeq(data, 1, 3))
    ELSE IF data[4] # 1 THEN FormatError("UnsupportedVersion", <<data[4]>>)
    ELSE IF data[5] = 0 THEN FormatError("ZeroSongs", <<>>)
    ELSE IF ~LoadAddrOk(Addr(data, "Load"))
    THEN FormatError("BadAddress", <<"Load", Addr(data, "Load")>>)
    ELSE IF ~CodeAddrOk(Addr(data, "Load"), Addr(data, "Init"))
    THEN FormatError("BadAddress", <<"Init", Addr(data, "Init")>>)
    ELSE IF ~CodeAddrOk(Addr(data, "Load"), Addr(data, "Play"))
    THEN FormatError("BadAddress", <<"Play", Addr(data, "Play")>>)
    ELSE [ok |-> TRUE, data |-> data]

\* The files the parser is given: every length around HEADER_LEN, a wrong
\* magic, the versions around 1, no song or one, and the addresses at and next
\* to each limit.
FileLens == {0, 2, 111, 112, 113}

FileFields ==
    [magic : {Magic, <<71, 66, 88>>},
     version : {0, 1, 2},
     nb_songs : {0, 1},
     first_song : {1},
     load : {\h03FF, \h0400, \h4000, \h4001},
     init : {\h03FF, \h0400, \h3FFF, \h4000, \h7FFF, \h8000},
     play : {\h03FF, \h0400, \h3FFF, \h4000, \h7FFF, \h8000},
     stack_ptr : {\hDFFE},
     timer_mod : {0},
     timer_ctrl : {0}]

InitGbs ==
    /\ SimIdle
    /\ DiffIdle
    /\ \E h \in FileFields, len \in FileLens :
          file = [fields |-> h, len |-> len, data |-> FileData(h, len)]
    /\ parsed = None
    /\ args = None
    /\ heads = None
    /\ sims = None
    /\ song = 0
    /\ failed = <<>>
    /\ report = <<>>
    /\ exit_code = <<>>
    /\ program = None

\* parse_gbs in main: Gbs::new, and exit(2) if it fails.
ParseGbs ==
    /\ parsed = None
    /\ parsed' = GbsNew(file.data)
    /\ exit_code' = IF parsed'.ok THEN exit_code ELSE <<2>>
    /\ UNCHANGED <<file, args, heads, sims, song, failed, report, program, simvars, diffvars>>

SpecGbs == InitGbs /\ [][ParseGbs]_vars

-----------------------------------------------------------------------------
(* Front end (src/main.rs, main): the loop over the songs                  *)

\* u64::MAX, the tick before anything is printed: above the tick of every
\* diagnostic.
U64_MAX == 2147483647

\* The exit status of a process that panicked.
PANIC_EXIT == 101

\* .filter(|diag| diag.level <= args.max_level) that lets everything through.
Filtered_All(ds, max_level) == ds

\* .filter(|diag| diag.level <= args.max_level)
Filtered(ds, max_level) == SelectSeq(ds, LAMBDA d : LevelLE(d.level, max_level))

\* What is printed: a tick marker, a diagnostic, the "...stopping" line.
TickLine(tick) == <<"tick", tick>>

DiagLine(diag) == <<"diag", diag>>

StopLine == <<"stopping">>

\* print_tick after `tick = t`
PrintTick(st, t) == [st EXCEPT !.tick = t, !.out = Append(@, TickLine(t))]

\* report!: print the diagnostic, count it, and break at max_reports.
ReportOne(st, diag, a) ==
    LET i == st.i + 1
    IN  IF i = a.max_reports
        THEN [st EXCEPT !.i = i, !.out = @ \o <<DiagLine(diag), StopLine>>,
                        !.stopped = TRUE]
        ELSE [st EXCEPT !.i = i, !.out = Append(@, DiagLine(diag))]

\* while let Some(diag) = diagnostics.peek() { ... }
RECURSIVE PeekLoop(_, _)
PeekLoop(st, a) ==
    IF st.diagnostics = <<>> THEN st
    ELSE LET diag == Head(st.diagnostics)
         IN  IF st.tick > diag.when.tick THEN st
             ELSE LET st1 == IF st.tick < diag.when.tick
                             THEN PrintTick(st, diag.when.tick) ELSE st
                      st2 == ReportOne(st1, diag, a)
                  IN  IF st2.stopped THEN st2
                      ELSE PeekLoop([st2 EXCEPT !.diagnostics = Tail(@)], a)

\* 'report: for diagnostic in DiffGenerator::new(..).filter(..) { ... }
RECURSIVE ReportLoop(_, _, _)
ReportLoop(st, ds, a) ==
    IF ds = <<>> THEN st
    ELSE LET diagnostic == Head(ds)
             st0 == [st EXCEPT !.ok = FALSE]
             st1 == IF diagnostic.when.tick # st0.tick /\ st0.printing
                    THEN PeekLoop(st0, a) ELSE st0
             st2 == IF diagnostic.when.tick # st0.tick /\ ~st1.stopped
                       /\ st1.tick # diagnostic.when.tick
                    THEN PrintTick(st1, diagnostic.when.tick) ELSE st1
             st3 == IF st2.stopped THEN st2 ELSE ReportOne(st2, diagnostic, a)
         IN  IF st3.stopped THEN st3 ELSE ReportLoop(st3, Tail(ds), a)

\* for diag in diagnostics { ... }: the leftover diagnostics
RECURSIVE Leftovers(_, _)
Leftovers(st, a) ==
    IF st.diagnostics = <<>> THEN st
    ELSE LET diag == Head(st.diagnostics)
             st1 == IF st.tick # diag.when.tick
                    THEN PrintTick(st, diag.when.tick) ELSE st
             st2 == ReportOne(st1, diag, a)
         IN  IF st2.stopped THEN st2
             ELSE Leftovers([st2 EXCEPT !.diagnostics = Tail(@)], a)

\* The comparison of one song, from `let mut ok = true` to the end of the
\* leftover diagnostics: [out, ok, ...]
Compare(a, before, after) ==
    LET printing == a.print_diagnostics # "None"
        st == [out |-> <<>>, i |-> 0, tick |-> U64_MAX, ok |-> TRUE,
               stopped |-> FALSE, printing |-> printing,
               diagnostics |-> CASE a.print_diagnostics = "Before" -> before.diagnostics
                                 [] a.print_diagnostics = "After" -> after.diagnostics
                                 [] OTHER -> <<>>]
        ds == Filtered(Collect(before.io_log, after.io_log, a.jitter, 0, 0),
                       a.max_level)
        st1 == ReportLoop(st, ds, a)
    IN  IF st1.i # a.max_reports /\ printing
        THEN Leftovers([st1 EXCEPT !.stopped = FALSE], a)
        ELSE st1

\* What a call of simulate_song gave back: a logbook, an error, or a panic.
Outcome(kind, lb) == [kind |-> kind, logbook |-> lb]

NoLogbook == [diagnostics |-> <<>>, io_log |-> <<>>]

\* Neither side was simulated.
NotRun == Outcome("NotRun", NoLogbook)

\* i + first_song in u8
SongId(i, first_song) == (i + first_song) % 256

\* One iteration of `for i in 0..nb_songs`, with what the two simulations
\* return: the earlier file is simulated first, and an error there skips the
\* later file. A u8 song id that overflows, or a simulation that panics, ends
\* the process in a build with overflow checks.
MainSong(before, after) ==
    LET ids == <<SongId(song, heads.first_song[1]), SongId(song, heads.first_song[2])>>
        overflows == \/ song + heads.first_song[1] > 255
                     \/ song + heads.first_song[2] > 255
        c == Compare(args, before.logbook, after.logbook)
        skip == UNCHANGED <<failed, report, song, sims>>
    IN  /\ args # None
        /\ exit_code = <<>>
        /\ song < heads.nb_songs
        /\ \/ /\ overflows
              /\ exit_code' = <<PANIC_EXIT>>
              /\ skip
           \/ /\ before.kind = "Panic" \/ (before.kind = "Ok" /\ after.kind = "Panic")
              /\ exit_code' = <<PANIC_EXIT>>
              /\ skip
           \/ /\ before.kind = "Err"
              /\ sims' = [before |-> before, after |-> NotRun]
              /\ failed' = Append(failed, ids)
              /\ report' = <<>>
              /\ song' = song + 1
              /\ UNCHANGED exit_code
           \/ /\ before.kind = "Ok"
              /\ after.kind = "Err"
              /\ sims' = [before |-> before, after |-> after]
              /\ failed' = Append(failed, ids)
              /\ report' = <<>>
              /\ song' = song + 1
              /\ UNCHANGED exit_code
           \/ /\ before.kind = "Ok"
              /\ after.kind = "Ok"
              /\ sims' = [before |-> before, after |-> after]
              /\ failed' = IF c.ok THEN failed ELSE Append(failed, ids)
              /\ report' = c.out
              /\ song' = song + 1
              /\ UNCHANGED exit_code
        /\ UNCHANGED <<file, parsed, args, heads, program, simvars, diffvars>>

\* After the loop: "All songs are OK!" and a normal return, or exit(1).
MainExit ==
    /\ args # None
    /\ exit_code = <<>>
    /\ song = heads.nb_songs
    /\ exit_code' = IF failed = <<>> THEN <<0>> ELSE <<1>>
    /\ UNCHANGED <<file, parsed, args, heads, sims, song, failed, report, program,
                   simvars, diffvars>>

\* Writes of the two songs: NR12 at tick 1, exactly, 15 cycles later, or with
\* another byte, and NR13 at tick 3.
MainWrite(tick, cycle, addr, data) ==
    IoAccess(Timestamp(tick, cycle), Address(1, 1024), addr, data)

MainIoLogs ==
    {<<>>,
     <<MainWrite(1, 10, 65298, 64)>>,
     <<MainWrite(1, 25, 65298, 64)>>,
     <<MainWrite(1, 10, 65298, 240), MainWrite(3, 10, 65299, 64)>>}

\* Diagnostics of a simulation: a Warning then a Note, the Warning in INIT
\* (where TooLong is never diagnosed) or in the tick of the first write.
MainDiag(tick, level, kind) ==
    Diagnostic(Timestamp(tick, 4), Address(1, 1024), level, <<kind>>)

MainDiagnostics(max_level) ==
    {Filtered(ds, max_level) :
        ds \in {<<>>,
                <<MainDiag(0, "Warning", "UnsupportedWrite"), MainDiag(2, "Note", "DebugOp")>>,
                <<MainDiag(1, "Warning", "TooLong"), MainDiag(2, "Note", "DebugOp")>>}}

\* What the simulation of one side can give back under max_level.
Outcomes(max_level, diagnostics) ==
    {Outcome("Err", NoLogbook), Outcome("Panic", NoLogbook)}
        \cup {Outcome("Ok", [diagnostics |-> d, io_log |-> l]) :
                 d \in diagnostics, l \in MainIoLogs}

\* The side whose diagnostics are not printed is drawn without diagnostics.
BeforeOutcomes ==
    Outcomes(args.max_level,
             IF args.print_diagnostics = "Before"
             THEN MainDiagnostics(args.max_level) ELSE {<<>>})

AfterOutcomes ==
    Outcomes(args.max_level,
             IF args.print_diagnostics = "After"
             THEN MainDiagnostics(args.max_level) ELSE {<<>>})

MaxReports == {0, 1, 2, 3}

\* (nb_songs, first_song of the two files)
Heads ==
    {[nb_songs |-> 1, first_song |-> <<0, 0>>],
     [nb_songs |-> 2, first_song |-> <<1, 3>>],
     [nb_songs |-> 2, first_song |-> <<255, 0>>]}

InitMain ==
    /\ SimIdle
    /\ DiffIdle
    /\ file = None
    /\ parsed = None
    /\ program = None
    /\ args \in [max_level : Levels, max_reports : MaxReports,
                 print_diagnostics : {"Before", "After", "None"}, jitter : {20}]
    /\ heads \in Heads
    /\ sims = [before |-> NotRun, after |-> NotRun]
    /\ song = 0
    /\ failed = <<>>
    /\ report = <<>>
    /\ exit_code = <<>>

NextMain ==
    \/ \E before \in BeforeOutcomes, after \in AfterOutcomes : MainSong(before, after)
    \/ MainExit

SpecMain == InitMain /\ [][NextMain]_vars

-----------------------------------------------------------------------------
(* Properties of the APU, the header and the front end                     *)

\* The last byte the driver wrote to `address`, or 0 if it never did: the data
\* of the last entry of io_log with that address.
LastWritten(address) ==
    LET ks == {k \in 1..Len(logbook.io_log) : logbook.io_log[k].addr = address}
    IN  IF ks = {} THEN 0
        ELSE logbook.io_log[CHOOSE k \in ks : \A l \in ks : l <= k].data

\* The read-back masks of the sound registers.
ReadBackMask(address) ==
    CASE address = \hFF10 -> \h80
      [] address \in {\hFF11, \hFF16} -> \h3F
      [] address \in {\hFF13, \hFF18, \hFF1D, \hFF22} -> \hFF
      [] address \in {\hFF14, \hFF19, \hFF1E, \hFF23} -> \hBF
      [] address = \hFF1A -> \h7F
      [] address = \hFF20 -> \hC0
      [] address = \hFF26 -> \h70
      [] address \in {\hFF12, \hFF17, \hFF1B, \hFF1C, \hFF21, \hFF24, \hFF25}
            \cup (\hFF30..\hFF3F) -> 0

\* C13: after any sequence of writes, every APU register R reads as the last
\* byte written to R (0 if never written) OR its mask; a write to one register
\* never changes what another register reads.
C13_ReadIsLastWriteOrMask ==
    \A address \in ApuRegs :
        AddrRead(Mach, address).val
            = BitOr8(LastWritten(address), ReadBackMask(address))

\* A partly masked register was written twice, with different bytes.
C13_Witness ==
    /\ Len(logbook.io_log) = 2
    /\ logbook.io_log[1].addr = logbook.io_log[2].addr
    /\ logbook.io_log[1].data # logbook.io_log[2].data
    /\ ReadBackMask(logbook.io_log[1].addr) \notin {0, \hFF}
    /\ result = "Ok"

\* The first condition of the claim that the file violates, as the error it
\* is to get; "none" if it violates none.
FirstViolated ==
    LET h == file.fields
    IN  IF file.len < 112 THEN <<"TruncatedHeader", <<file.len>>>>
        ELSE IF h.magic # <<71, 66, 83>> THEN <<"BadMagic", h.magic>>
        ELSE IF h.version # 1 THEN <<"UnsupportedVersion", <<h.version>>>>
        ELSE IF h.nb_songs = 0 THEN <<"ZeroSongs", <<>>>>
        ELSE IF ~(1024 <= h.load /\ h.load <= 16384) THEN <<"BadAddress", <<"Load", h.load>>>>
        ELSE IF ~(h.load <= h.init /\ h.init < 32768) THEN <<"BadAddress", <<"Init", h.init>>>>
        ELSE IF ~(h.load <= h.play /\ h.play < 32768) THEN <<"BadAddress", <<"Play", h.play>>>>
        ELSE <<"none", <<>>>>

\* C14: Gbs::new accepts a file if and only if it violates none of the
\* conditions (length, magic, version, songs, load, init, play: the addresses
\* read little-endian), and rejects every other file with the error of the
\* first condition it violates, in that order.
C14_AcceptsIffWellFormed ==
    parsed # None =>
        /\ parsed.ok <=> FirstViolated[1] = "none"
        /\ ~parsed.ok => <<parsed.kind, parsed.fields>> = FirstViolated

\* A file whose load address is the upper limit 0x4000 is accepted, with init
\* below 0x8000 and play at the load address.
C14_Witness ==
    /\ parsed # None
    /\ parsed.ok
    /\ file.fields.load = 16384
    /\ file.fields.init = 32767
    /\ file.fields.play = 16384
    /\ file.len = 112

AtMost(level, max_level) ==
    <<level, max_level>> \in {<<"Error", "Error">>, <<"Error", "Warning">>,
                             <<"Error", "Note">>, <<"Warning", "Warning">>,
                             <<"Warning", "Note">>, <<"Note", "Note">>}

\* The diagnostics of a logbook that max_level lets through.
Passing(diagnostics, max_level) ==
    SelectSeq(diagnostics, LAMBDA d : AtMost(d.level, max_level))

\* The lower of two levels.
LowerLevel(l1, l2) == IF AtMost(l1, l2) THEN l1 ELSE l2

\* C16: every stored diagnostic has level <= max_level; the same song
\* simulated under two values of max_level gives the same io_log and the same
\* result, and the two lists of diagnostics agree on every diagnostic both
\* levels let through, so that diagnose appended exactly the diagnostics its
\* max_level lets through.
C16_MaxLevelFiltersDiagnosticsOnly ==
    /\ \A k \in 1..Len(logbook.diagnostics) :
          AtMost(logbook.diagnostics[k].level, cfg.max_level)
    /\ (sims # None /\ phase = "done") =>
          LET first == sims.returned.logbook
              low == LowerLevel(sims.max_level, cfg.max_level)
          IN  /\ logbook.io_log = first.io_log
              /\ result = sims.returned.result
              /\ Passing(logbook.diagnostics, low) = Passing(first.diagnostics, low)
              /\ sims.max_level = "Note" =>
                    logbook.diagnostics = Passing(first.diagnostics, cfg.max_level)

\* The first call, under Note, stored a Note and a Warning and logged writes;
\* the second call, under Warning, has returned with the Warning only.
C16_Witness ==
    /\ sims # None
    /\ phase = "done"
    /\ sims.max_level = "Note"
    /\ cfg.max_level = "Warning"
    /\ \E k \in 1..Len(sims.returned.logbook.diagnostics) :
          sims.returned.logbook.diagnostics[k].level = "Note"
    /\ \E k \in 1..Len(sims.returned.logbook.diagnostics) :
          sims.returned.logbook.diagnostics[k].level = "Warning"
    /\ Len(logbook.diagnostics) >= 1
    /\ Len(logbook.diagnostics) < Len(sims.returned.logbook.diagnostics)
    /\ Len(logbook.io_log) >= 2

\* The diagnostics DiffGenerator yields for the two logs last simulated that
\* max_level lets through.
PassingDifferences(b, a) ==
    Passing(Collect(b.logbook.io_log, a.logbook.io_log, args.jitter, 0, 0),
            args.max_level)

Reported == {k \in 1..Len(report) : report[k][1] = "diag"}

\* C18: at most max_reports diagnostics are reported for one song.
C18_AtMostMaxReports ==
    args # None => Cardinality(Reported) <= args.max_reports

\* The instruction just executed made the address space diagnose a Warning
\* UnsupportedWrite for an I/O register: a write the APU did not handle.
UnhandledIoWrite ==
    /\ Len(logbook'.diagnostics) = Len(logbook.diagnostics) + 1
    /\ LET d == logbook'.diagnostics[Len(logbook'.diagnostics)]
       IN  /\ d.level = "Warning"
           /\ d.kind[1] = "UnsupportedWrite"
           /\ d.kind[2][2] \in \hFF00..\hFF7F

\* C19: an instruction of the driver appends to io_log iff it resets the
\* silence timer to 0 (otherwise the timer keeps its value), and a write the
\* APU does not handle leaves io_log, the APU registers and the silence timer
\* as they were.
C19_ResetIffLogged ==
    [][steps' = steps + 1 =>
          /\ IF Len(logbook'.io_log) > Len(logbook.io_log)
             THEN silence_timer' = 0
             ELSE silence_timer' = silence_timer
          /\ UnhandledIoWrite =>
                /\ logbook'.io_log = logbook.io_log
                /\ space'.apu = space.apu
                /\ silence_timer' = silence_timer]_vars

\* C20: the u16 product for cycles_per_tick never overflows; cycles_per_tick
\* is (2^timer_div_bit) * (256 - timer_mod) when the header uses the timer and
\* 17556 when it does not, and it is strictly positive.
C20_CyclesPerTickFits ==
    /\ result # "Panic"
    /\ cycles_per_tick =
          IF UseTimer(gbs.timer_ctrl)
          THEN (2 ^ TimerDivBit(gbs.timer_ctrl)) * (256 - gbs.timer_mod)
          ELSE 17556
    /\ cycles_per_tick > 0

\* The errors run_func returns from inside its loop.
FatalErrors ==
    {"PcHaywire", "SpHaywire", "Halted", "Stopped", "InvalidOpcode", "LockedUp"}

\* run_func is in its loop, at the loop condition.
InRunFunc == phase \in {"INIT", "PLAY"} /\ result = "running"

\* While 0x8000 <= SP <= orig_sp a step keeps the call going or ends it with
\* a fatal error.
LiveFrameSteps ==
    [][(InRunFunc /\ cpu.sp >= \h8000 /\ cpu.sp <= orig_sp) =>
          /\ result' \in {"running"} \cup FatalErrors
          /\ result' = "running" => phase' = phase /\ orig_sp' = orig_sp]_vars

\* C21 as stated, with orig_sp + 2 a plain sum: once the loop has ended,
\* run_func returns Ok iff SP = orig_sp + 2, so never with SP < 0x8000, and
\* fails with PoppedTooDeep(SP, orig_sp) otherwise.
C21_OkIffSpIsOrigPlusTwo ==
    /\ LiveFrameSteps
    /\ [][(InRunFunc /\ ~(cpu.sp >= \h8000 /\ cpu.sp <= orig_sp)) =>
             IF cpu.sp = orig_sp + 2
             THEN result' # "PoppedTooDeep"
             ELSE result' = "PoppedTooDeep" /\ err' = <<cpu.sp, orig_sp>>]_vars

\* C21, with the sum taken in 16 bits: once the loop has ended, run_func
\* returns Ok iff SP = (orig_sp + 2) mod 65536 and fails with
\* PoppedTooDeep(SP, orig_sp) otherwise; while 0x8000 <= SP <= orig_sp it
\* keeps stepping or leaves through a fatal error.
C21_OkIffSpIsOrigPlusTwoMod ==
    /\ LiveFrameSteps
    /\ [][(InRunFunc /\ ~(cpu.sp >= \h8000 /\ cpu.sp <= orig_sp)) =>
             IF cpu.sp = (orig_sp + 2) % 65536
             THEN result' # "PoppedTooDeep"
             ELSE result' = "PoppedTooDeep" /\ err' = <<cpu.sp, orig_sp>>]_vars

\* INIT returned from a stack at 0xFFFE, with SP = 0x0000, and PLAY was
\* entered.
C21_Witness ==
    /\ gbs.stack_ptr = \hFFFE
    /\ phase = "PLAY"
    /\ result = "running"
    /\ logger.tick = 1
    /\ steps = 0

\* C22: with the header's stack_ptr below 0x8000 no instruction is executed,
\* PLAY is never entered, and the simulation ends with
\* PoppedTooDeep(stack_ptr, stack_ptr) and no logbook.
C22_LowStackFailsAtOnce ==
    gbs.stack_ptr < \h8000 =>
        /\ steps = 0
        /\ total_cycles = 0
        /\ logger.tick = 0
        /\ logger.cycle = 0
        /\ cpu.pc = gbs.init_addr
        /\ phase \in {"INIT", "done"}
        /\ phase = "done" =>
              result = "PoppedTooDeep" /\ err = <<gbs.stack_ptr, gbs.stack_ptr>>

C22_Witness ==
    /\ gbs.stack_ptr = \h7FFE
    /\ phase = "done"
    /\ result = "PoppedTooDeep"

\* C23: the cycle total of a call never exceeds 65,535; a step that goes on
\* leaves the writer's cycle counter equal to the total, and a step that would
\* bring the total above 65,535 fails with LockedUp(prev_pc) and adds
\* nothing, so the cycle counter never wraps.
C23_CycleTotalFitsSixteenBits ==
    /\ [](total_cycles <= 65535)
    /\ [](InRunFunc => logger.cycle = total_cycles)
    /\ [][(InRunFunc /\ steps' = steps + 1) =>
             /\ result' = "running" =>
                   /\ total_cycles' \in {total_cycles + 3, total_cycles + 4}
                   /\ logger'.cycle = total_cycles'
             /\ result' = "LockedUp" =>
                   /\ total_cycles + 4 > 65535
                   /\ err' = <<logger.rom_bank, cpu.pc>>
                   /\ total_cycles' = total_cycles
                   /\ logger'.cycle = total_cycles
             /\ total_cycles + 3 > 65535 => result' # "running"]_vars

\* A call locked up at 65,532 cycles.
C23_Witness ==
    /\ result = "LockedUp"
    /\ total_cycles = 65532
    /\ logger.cycle = 65532

\* The step changed nothing but the pc the writer stamps its records with:
\* the instruction was not executed.
NotExecuted ==
    /\ cpu' = cpu
    /\ total_cycles' = total_cycles
    /\ logbook' = logbook
    /\ space' = space
    /\ silence_timer' = silence_timer
    /\ logger' = [logger EXCEPT !.pc = cpu.pc]

\* C24: a step of a live frame that starts with PC in 0xFF00..0xFF7F fails
\* with PcHaywire(prev_pc); otherwise, with SP in 0xFF00..0xFF7F, it fails with
\* SpHaywire((bank, SP), prev_pc); in both cases the instruction is not
\* executed; with neither, the step does not fail with either error.
C24_HaywireBeforeExecution ==
    [][(InRunFunc /\ steps' = steps + 1) =>
          LET pc_in == cpu.pc >= \hFF00 /\ cpu.pc <= \hFF7F
              sp_in == cpu.sp >= \hFF00 /\ cpu.sp <= \hFF7F
          IN  /\ pc_in =>
                    /\ result' = "PcHaywire"
                    /\ err' = <<logger.rom_bank, cpu.pc>>
                    /\ NotExecuted
              /\ (~pc_in /\ sp_in) =>
                    /\ result' = "SpHaywire"
                    /\ err' = <<logger.rom_bank, cpu.sp, logger.rom_bank, cpu.pc>>
                    /\ NotExecuted
              /\ (~pc_in /\ ~sp_in) => result' \notin {"PcHaywire", "SpHaywire"}]_vars

\* A call failed with PcHaywire while SP was among the I/O registers too.
C24_Witness ==
    /\ result = "PcHaywire"
    /\ cpu.pc = \hFF7F
    /\ cpu.sp = \hFF7E
    /\ err = <<1, \hFF7F>>

\* The diagnostics the step appended.
NewDiagnostics ==
    SubSeq(logbook'.diagnostics, Len(logbook.diagnostics) + 1, Len(logbook'.diagnostics))

\* C25: the first instruction of a call, when its outcome is Debug or Break,
\* appends a Note DebugOp(prev_pc) stamped with prev_pc and the time before
\* the instruction if max_level is Note, appends nothing otherwise, and the
\* call goes on; Halt and Stop end the song with Halted(prev_pc) and
\* Stopped(prev_pc), InvalidOpcode with the byte at prev_pc and prev_pc; a
\* step that stored a diagnostic never ends the call, and a tick end that stored
\* TooLong ends the song, if it does, with a logbook or with Timeout.
C25_DiagnosticsNeverEndTheSong ==
    /\ [][(InRunFunc /\ steps = 0 /\ steps' = 1) =>
             LET prev_pc == <<logger.rom_bank, cpu.pc>>
                 o == Programmed.outcome
             IN  /\ o \in {"Debug", "Break"} =>
                       /\ result' = "running"
                       /\ NewDiagnostics =
                             IF cfg.max_level = "Note"
                             THEN <<[when |-> [tick |-> logger.tick, cycle |-> total_cycles],
                                     pc |-> prev_pc, level |-> "Note",
                                     kind |-> <<"DebugOp", prev_pc>>]>>
                             ELSE <<>>
                 /\ o = "Halt" => result' = "Halted" /\ err' = prev_pc
                 /\ o = "Stop" => result' = "Stopped" /\ err' = prev_pc
                 /\ o = "InvalidOpcode" =>
                       result' = "InvalidOpcode" /\ err' = <<\hC9>> \o prev_pc
                 /\ o = "Ok" => result' = "running"
                 /\ NewDiagnostics # <<>> => result' = "running"]_vars
    /\ [][(phase = "PLAY" /\ result = "running" /\ steps' = steps
              /\ NewDiagnostics # <<>>) =>
             /\ Len(NewDiagnostics) = 1
             /\ NewDiagnostics[1].kind[1] = "TooLong"
             /\ result' \in {"running", "Ok", "Timeout"}]_vars

\* A song that stored an UnsupportedWrite, a DebugOp and a TooLong ended with
\* a logbook.
C25_Witness ==
    /\ result = "Ok"
    /\ \E k \in 1..Len(logbook.diagnostics) : logbook.diagnostics[k].kind[1] = "DebugOp"
    /\ \E k \in 1..Len(logbook.diagnostics) : logbook.diagnostics[k].kind[1] = "TooLong"
    /\ \E k \in 1..Len(logbook.diagnostics) :
          logbook.diagnostics[k].kind[1] = "UnsupportedWrite"

\* The first instruction of a call is executing its memory access.
FirstAccess == InRunFunc /\ steps = 0 /\ steps' = 1

\* The instruction writes a byte to an address of the set.
WritesTo(i, addrs) == i.op[1] = "write" /\ i.op[2] \in addrs

\* C26: rom_bank is 1 when INIT starts; a write of d to 0x2000-0x3FFF leaves
\* rom_bank = d, storing a Warning UnsupportedWrite exactly when d = 0; no
\* other step changes rom_bank; a write to 0x0000-0x1FFF or 0x4000-0x7FFF
\* changes neither the memory, the bank, the silence timer nor the I/O log, and
\* stores a Warning UnsupportedWrite.
C26_BankLatch ==
    /\ []((phase = "INIT" /\ steps = 0 /\ result = "running") => logger.rom_bank = 1)
    /\ [][IF FirstAccess /\ WritesTo(Programmed, \h2000..\h3FFF)
          THEN LET address == Programmed.op[2]
                   d == Programmed.op[3]
               IN  /\ logger'.rom_bank = d
                   /\ space' = space
                   /\ NewDiagnostics =
                         IF d = 0
                         THEN <<[when |-> [tick |-> logger.tick, cycle |-> 0],
                                 pc |-> <<0, cpu.pc>>, level |-> "Warning",
                                 kind |-> <<"UnsupportedWrite", <<0, address>>, 0>>]>>
                         ELSE <<>>
          ELSE logger'.rom_bank = logger.rom_bank]_vars
    /\ [][(FirstAccess
             /\ WritesTo(Programmed, (\h0000..\h1FFF) \cup (\h4000..\h7FFF))) =>
             /\ space' = space
             /\ silence_timer' = silence_timer
             /\ logbook'.io_log = logbook.io_log
             /\ NewDiagnostics =
                   <<[when |-> [tick |-> logger.tick, cycle |-> 0],
                      pc |-> <<logger.rom_bank, cpu.pc>>, level |-> "Warning",
                      kind |-> <<"UnsupportedWrite",
                                 <<logger.rom_bank, Programmed.op[2]>>,
                                 Programmed.op[3]>>]>>]_vars

\* INIT latched bank 0 through 0x3FFF and PLAY wrote to 0x7FFF: the bank is
\* still 0 and both writes were flagged.
C26_Witness ==
    /\ phase = "done"
    /\ logger.rom_bank = 0
    /\ Len(logbook.diagnostics) = 2
    /\ logbook.diagnostics[1].kind = <<"UnsupportedWrite", <<0, \h3FFF>>, 0>>
    /\ logbook.diagnostics[2].kind = <<"UnsupportedWrite", <<0, \h7FFF>>, 1>>

\* Addresses around the edges of the low window and of the payloads in it.
LowProbes == {\h0000, \h03FF, \h0400, \h041F, \h0420, \h3FEF, \h3FF0, \h3FFF}

\* Addresses around the edges of the banked window and of the payloads in it.
BankedProbes ==
    {\h4000, \h400F, \h4010, \h401F, \h4020, \h43FF, \h4400, \h441F, \h4420, \h7FFF}

\* The machine after it stored a Warning UnsupportedRead of the address.
ReadFlagged(address) ==
    [Mach EXCEPT !.logbook.diagnostics =
        Append(@, [when |-> [tick |-> logger.tick, cycle |-> logger.cycle],
                   pc |-> <<logger.rom_bank, logger.pc>>, level |-> "Warning",
                   kind |-> <<"UnsupportedRead", <<logger.rom_bank, address>>>>])]

\* The read returns byte `index` of the payload and stores nothing when the
\* index is in the payload, and else returns `fallback` and stores the Warning.
ReadsPayload(address, index, fallback) ==
    LET r == AddrRead(Mach, address)
    IN  IF index >= 0 /\ index < Len(gbs.rom)
        THEN r.val = gbs.rom[index + 1] /\ r.m = Mach
        ELSE r.val = fallback /\ r.m = ReadFlagged(address)

\* C27: in every state, a read in 0x0000-0x3FFF returns ROM[addr - load_addr]
\* when that index is in the payload and else 0xFF with a Warning
\* UnsupportedRead; a read in 0x4000-0x7FFF returns
\* ROM[rom_bank * 0x4000 + (addr - 0x4000) - load_addr] when that index is in
\* the payload and else 0x00 with the Warning; with rom_bank = 1 the banked
\* window reads the payload at addr - load_addr; and a load the driver
\* executes stores the Warning exactly in the fallback cases.
C27_RomWindows ==
    /\ [](\A address \in LowProbes :
             ReadsPayload(address, address - gbs.load_addr, \hFF))
    /\ [](\A address \in BankedProbes :
             ReadsPayload(address,
                          logger.rom_bank * \h4000 + (address - \h4000) - gbs.load_addr,
                          \h00))
    /\ [](logger.rom_bank = 1 =>
             \A address \in BankedProbes :
                 ReadsPayload(address, address - gbs.load_addr, \h00))
    /\ [][(FirstAccess /\ Programmed.op[1] = "read"
              /\ Programmed.op[2] \in \h0000..\h7FFF) =>
             LET address == Programmed.op[2]
                 index == IF address < \h4000 THEN address - gbs.load_addr
                          ELSE logger.rom_bank * \h4000 + (address - \h4000)
                                   - gbs.load_addr
             IN  /\ (NewDiagnostics = <<>>) <=> (index >= 0 /\ index < Len(gbs.rom))
                 /\ \A k \in 1..Len(NewDiagnostics) :
                        NewDiagnostics[k].kind
                            = <<"UnsupportedRead", <<logger.rom_bank, address>>>>
                 /\ space' = space
                 /\ logger'.rom_bank = logger.rom_bank]_vars

\* Bank 2 of the long payload loaded at 0x0400: 0x4000 reads payload byte
\* 0x7C00, 0x4020 is past the payload and reads 0x00, and below the load
\* address the low window reads 0xFF; PLAY read 0x4000 without a diagnostic.
C27_Witness ==
    /\ phase = "done"
    /\ logger.rom_bank = 2
    /\ Len(gbs.rom) = 31776
    /\ program[1] = Load(\h4000)
    /\ logbook.diagnostics = <<>>
    /\ AddrRead(Mach, \h4000).val = gbs.rom[\h7C00 + 1]
    /\ AddrRead(Mach, \h401F).val = gbs.rom[\h7C1F + 1]
    /\ AddrRead(Mach, \h4020).val = \h00
    /\ AddrRead(Mach, \h03FF).val = \hFF
    /\ AddrRead(Mach, \h3FFF).val = gbs.rom[\h3BFF + 1]

\* The first and last address of SRAM, WRAM and HRAM, and the work RAM cell
\* behind the last echo address.
RamProbes == {\hA000, \hBFFF, \hC000, \hDDFF, \hDFFF, \hFF80, \hFFFE}

\* The first and last echo address.
EchoProbes == {\hE000, \hFDFF}

RamRange == (\hA000..\hBFFF) \cup (\hC000..\hDFFF) \cup (\hFF80..\hFFFE)

EchoRange == \hE000..\hFDFF

\* The RAM address an address names.
Aliased(address) == IF address \in EchoRange THEN address - \h2000 ELSE address

\* The machine after the step.
MachAfter ==
    [logbook |-> logbook', logger |-> logger',
     silence_timer |-> silence_timer', space |-> space']

\* The Note an echo access stores.
EchoNote(kind) ==
    <<[when |-> [tick |-> logger.tick, cycle |-> logger.cycle],
       pc |-> <<logger.rom_bank, cpu.pc>>, level |-> "Note", kind |-> kind]>>

\* C28: SRAM, WRAM and HRAM read 0 when INIT starts; a write of d to a RAM or
\* echo address makes the address, and the address it aliases, read d, and
\* leaves every other address as it read; no other step changes what a RAM
\* address reads; a RAM access stores no diagnostic; an echo address reads
\* what the WRAM address 0x2000 below reads, and each echo access stores a Note
\* EchoRamRead or EchoRamWrite.
C28_RamReadsLastWrite ==
    /\ []((phase = "INIT" /\ steps = 0 /\ result = "running") =>
             \A address \in RamProbes \cup EchoProbes :
                 AddrRead(Mach, address).val = 0)
    /\ [](\A address \in RamProbes : AddrRead(Mach, address).m = Mach)
    /\ [](\A e \in EchoProbes :
             /\ AddrRead(Mach, e).val = AddrRead(Mach, e - \h2000).val
             /\ AddrRead(Mach, e).m =
                   [Mach EXCEPT !.logbook.diagnostics =
                       Append(@, [when |-> [tick |-> logger.tick, cycle |-> logger.cycle],
                                  pc |-> <<logger.rom_bank, logger.pc>>,
                                  level |-> "Note",
                                  kind |-> <<"EchoRamRead", <<logger.rom_bank, e>>>>])])
    /\ [][IF FirstAccess /\ WritesTo(Programmed, RamRange \cup EchoRange)
          THEN LET written == Programmed.op[2]
                   d == Programmed.op[3]
               IN  /\ \A address \in RamProbes \cup EchoProbes :
                          AddrRead(MachAfter, address).val =
                              IF Aliased(address) = Aliased(written) THEN d
                              ELSE AddrRead(Mach, address).val
                   /\ NewDiagnostics =
                          IF written \in EchoRange
                          THEN EchoNote(<<"EchoRamWrite", <<logger.rom_bank, written>>, d>>)
                          ELSE <<>>
          ELSE \A address \in RamProbes \cup EchoProbes :
                   AddrRead(MachAfter, address).val = AddrRead(Mach, address).val]_vars
    /\ [][(FirstAccess /\ Programmed.op[1] = "read"
              /\ Programmed.op[2] \in RamRange \cup EchoRange) =>
             NewDiagnostics =
                 IF Programmed.op[2] \in EchoRange
                 THEN EchoNote(<<"EchoRamRead", <<logger.rom_bank, Programmed.op[2]>>>>)
                 ELSE <<>>]_vars

\* INIT wrote 0x55 through the last echo address and PLAY wrote 0xAA to the
\* first WRAM address: each is read back through the other side, and only the
\* echo write stored a Note.
C28_Witness ==
    /\ phase = "done"
    /\ program[0] = Store(\hFDFF, \h55)
    /\ program[1] = Store(\hC000, \hAA)
    /\ AddrRead(Mach, \hDDFF).val = \h55
    /\ AddrRead(Mach, \hFDFF).val = \h55
    /\ AddrRead(Mach, \hE000).val = \hAA
    /\ AddrRead(Mach, \hDFFF).val = 0
    /\ Len(logbook.diagnostics) = 1
    /\ logbook.diagnostics[1].kind = <<"EchoRamWrite", <<1, \hFDFF>>, \h55>>

NewIoAccesses ==
    SubSeq(logbook'.io_log, Len(logbook.io_log) + 1, Len(logbook'.io_log))

\* The timestamps of the records the step appended.
NewStamps ==
    {NewIoAccesses[k].when : k \in 1..Len(NewIoAccesses)}
        \cup {NewDiagnostics[k].when : k \in 1..Len(NewDiagnostics)}

\* The cycles of the first n instructions of the program.
RECURSIVE ProgramCycles(_)
ProgramCycles(n) == IF n = 0 THEN 0 ELSE ProgramCycles(n - 1) + program[n - 1].elapsed

\* A call of PLAY begins.
PlayBegins == phase' = "PLAY" /\ result' = "running" /\ steps' = 0 /\ steps # 0

\* C29: the tick is 0 throughout INIT, each PLAY call begins by adding 1 to
\* the tick, with the cycle counter at 0, and no other step changes the tick,
\* so that the k-th PLAY call runs in tick k; every record a step appends
\* carries the tick of the call, and a record an instruction appends carries
\* the sum of the cycles of the instructions of the call completed before it.
C29_RecordsStampedTickAndCycle ==
    /\ [](phase = "INIT" => logger.tick = 0)
    /\ [][IF PlayBegins
          THEN logger'.tick = logger.tick + 1 /\ logger'.cycle = 0
          ELSE logger'.tick = logger.tick]_vars
    /\ [][\A when \in NewStamps : when.tick = logger.tick]_vars
    /\ [][(InRunFunc /\ steps' = steps + 1) =>
             \A when \in NewStamps : when.cycle = ProgramCycles(steps)]_vars

\* A driver of a 12-cycle instruction, an APU write of 8 cycles and the
\* return: INIT and the first two PLAY calls each logged the write at cycle 12
\* of their tick.
C29_Witness ==
    /\ phase = "PLAY"
    /\ logger.tick = 3
    /\ Len(logbook.io_log) >= 3
    /\ \A k \in 1..3 : logbook.io_log[k].when = [tick |-> k - 1, cycle |-> 12]

\* C30: at the end of a PLAY call that returned c cycles the step stores a
\* Warning TooLong(c, cycles_per_tick) when c > cycles_per_tick and nothing
\* otherwise; the end of INIT stores nothing; and the check that ends the
\* song, or lets it go on, is the one that the silence timer and the budget
\* alone select, whatever c is.
C30_TooLongIffOverBudget ==
    /\ [][TickEnds =>
             /\ NewDiagnostics =
                   IF total_cycles > cycles_per_tick
                   THEN <<[when |-> [tick |-> logger.tick, cycle |-> logger.cycle],
                           pc |-> <<logger.rom_bank, logger.pc>>,
                           level |-> "Warning",
                           kind |-> <<"TooLong", total_cycles, cycles_per_tick>>]>>
                   ELSE <<>>
             /\ exit_via' = IF silence_timer >= cfg.silence_timeout THEN "silence"
                            ELSE IF timeout >= cycles_per_tick THEN "none"
                            ELSE "timeout"
             /\ result' = IF exit_via' = "none" THEN "running"
                          ELSE IF exit_via' = "timeout" /\ ~cfg.allow_timeout
                          THEN "Timeout"
                          ELSE "Ok"]_vars
    /\ [][phase = "INIT" =>
             \A k \in 1..Len(NewDiagnostics) : NewDiagnostics[k].kind[1] # "TooLong"]_vars
    /\ [][(phase = "INIT" /\ phase' # "INIT") => NewDiagnostics = <<>>]_vars

\* PLAY took 12 cycles against 8 per tick: its TooLong is the only
\* diagnostic of the song, which was cut by its budget all the same.
C30_Witness ==
    /\ phase = "done"
    /\ result = "Ok"
    /\ exit_via = "timeout"
    /\ total_cycles = 12
    /\ program[0] = Nop
    /\ logbook.diagnostics =
          <<[when |-> [tick |-> 1, cycle |-> 12], pc |-> <<1, \h0404>>,
             level |-> "Warning", kind |-> <<"TooLong", 12, 8>>]>>

-----------------------------------------------------------------------------
(* Further properties of the difference generator                          *)

\* The request appends exactly the diagnostic and moves the cursors to <<i, j>>.
Yields(item, i, j) == emitted' = Append(emitted, item) /\ indices' = <<i, j>>

RemovedOf(b) == Diagnostic(b.when, b.pc, "Error", <<"Removed", b.addr, b.data>>)

AddedOf(a) == Diagnostic(a.when, a.pc, "Error", <<"Added", a.addr, a.data>>)

\* C31: when, after the silent pairs, both cursors are valid and the two
\* accesses have different ticks, the request emits exactly one diagnostic and
\* advances exactly one cursor: Error Removed(b.addr, b.data) stamped with b
\* when b.tick < a.tick, Error Added(a.addr, a.data) stamped with a when
\* b.tick > a.tick; so the two are neither paired nor matched silently.
C31_DifferentTicksReportOne ==
    [][LET c == SkipSilent(indices[1], indices[2])
           b == Get(Before, c[1])
           a == Get(After, c[2])
       IN  (b # None /\ a # None /\ b.when.tick # a.when.tick) =>
               IF b.when.tick < a.when.tick
               THEN Yields(RemovedOf(b), c[1] + 1, c[2])
               ELSE Yields(AddedOf(a), c[1], c[2] + 1)]_vars

\* The same write in tick 1 of the earlier log and in tick 2 of the later one
\* was reported as removed, and only the earlier cursor moved.
C31_Witness ==
    /\ indices = <<1, 0>>
    /\ Len(After) >= 1
    /\ Before[1].when.tick = 1
    /\ After[1].when.tick = 2
    /\ Before[1].addr = After[1].addr
    /\ Before[1].data = After[1].data
    /\ emitted = <<RemovedOf(Before[1])>>

\* After the silent pairs both cursors are valid and the two accesses are in
\* the same tick and differ in both addr and data.
NothingMatchesAt(c) ==
    LET b == Get(Before, c[1])
        a == Get(After, c[2])
    IN  /\ b # None
        /\ a # None
        /\ b.when.tick = a.when.tick
        /\ b.addr # a.addr
        /\ b.data # a.data

\* B[i+1] exists and has the addr of a.
NextBeforeMatches(c) ==
    LET b2 == Get(Before, c[1] + 1)
    IN  b2 # None /\ b2.addr = Get(After, c[2]).addr

\* A[j+1] exists and has the addr of b.
NextAfterMatches(c) ==
    LET a2 == Get(After, c[2] + 1)
    IN  a2 # None /\ a2.addr = Get(Before, c[1]).addr

\* C32: in the same-tick case where both addr and data differ, if B[i+1]
\* exists with the addr of a the request emits Error Removed(b) and advances
\* only i, even when A[j+1] has the addr of b; otherwise if A[j+1] exists with
\* the addr of b it emits Error Added(a) and advances only j; otherwise it
\* emits Removed(b) when b.cycle < a.cycle and Added(a) when b.cycle >=
\* a.cycle, advancing only the reported side.
C32_LookaheadThenEarlier ==
    [][LET c == SkipSilent(indices[1], indices[2])
           b == Get(Before, c[1])
           a == Get(After, c[2])
       IN  NothingMatchesAt(c) =>
               IF NextBeforeMatches(c) THEN Yields(RemovedOf(b), c[1] + 1, c[2])
               ELSE IF NextAfterMatches(c) THEN Yields(AddedOf(a), c[1], c[2] + 1)
               ELSE IF b.when.cycle < a.when.cycle
               THEN Yields(RemovedOf(b), c[1] + 1, c[2])
               ELSE Yields(AddedOf(a), c[1], c[2] + 1)]_vars

\* Both lookaheads matched, and the later log's first write was the earlier
\* one: the earlier log's write was reported as removed all the same.
C32_Witness ==
    /\ indices = <<1, 0>>
    /\ Len(Before) = 2
    /\ Len(After) = 2
    /\ NothingMatchesAt(<<0, 0>>)
    /\ NextBeforeMatches(<<0, 0>>)
    /\ NextAfterMatches(<<0, 0>>)
    /\ After[1].when.cycle < Before[1].when.cycle
    /\ emitted = <<RemovedOf(Before[1])>>

\* C33: when, after the silent pairs, the earlier log is exhausted and the
\* later one is not, the request emits Error Added(a.addr, a.data) stamped
\* with a's timestamp and pc and advances j by one; when the later log is
\* exhausted and the earlier one is not, it emits Error Removed(b.addr,
\* b.data) stamped with b and advances i by one; the request returns the end
\* exactly when both cursors are at the end, and emits nothing then.
C33_LeftoversInLogOrder ==
    /\ [][LET c == SkipSilent(indices[1], indices[2])
              b == Get(Before, c[1])
              a == Get(After, c[2])
          IN  /\ (b = None /\ a # None) => Yields(AddedOf(a), c[1], c[2] + 1)
              /\ (b # None /\ a = None) => Yields(RemovedOf(b), c[1] + 1, c[2])
              /\ ended' <=> (b = None /\ a = None)
              /\ ended' => emitted' = emitted /\ indices' = c]_vars
    /\ [](ended => indices = <<Len(Before), Len(After)>>)

\* The earlier log is empty: the two writes of the later log came out as
\* Added, in log order, the second with its own pc, and then the end.
C33_Witness ==
    /\ ended
    /\ Before = <<>>
    /\ Len(After) = 2
    /\ After[1].pc # After[2].pc
    /\ emitted = <<AddedOf(After[1]), AddedOf(After[2])>>

\* What holds of every diff whatever a request may do to the cursors: they
\* never exceed the log lengths, at most |B| + |A| diagnostics are emitted, a
\* request emits one diagnostic or returns the end, the end is returned with
\* every access of both logs consumed, every request after the end returns
\* the end again, and the end is reached.
DiffIsFinite ==
    /\ [](indices[1] <= Len(Before) /\ indices[2] <= Len(After))
    /\ [](Len(emitted) <= Len(Before) + Len(After))
    /\ [][(Len(emitted') = Len(emitted) + 1 /\ ~ended') \/ (emitted' = emitted /\ ended')]_vars
    /\ [](ended => indices = <<Len(Before), Len(After)>>)
    /\ [][ended => (ended' /\ emitted' = emitted /\ indices' = indices)]_vars
    /\ <>[]ended

\* C34 as stated: every request moves one cursor, or both, by exactly one, or
\* returns the end; and the diff is finite as above.
C34_RequestAdvancesByOne ==
    /\ [][\/ indices' \in {<<indices[1] + 1, indices[2]>>,
                          <<indices[1], indices[2] + 1>>,
                          <<indices[1] + 1, indices[2] + 1>>}
          \/ ended']_vars
    /\ DiffIsFinite

\* C34, amended: every request first moves both cursors by one over each
\* silently matched pair, and then moves one cursor, or both, by exactly one
\* and emits a diagnostic, or returns the end; so every access is consumed
\* once, by one iteration; and the diff is finite as above.
C34_IterationAdvancesByOne ==
    /\ [][LET c == SkipSilent(indices[1], indices[2])
          IN  \/ /\ indices' \in {<<c[1] + 1, c[2]>>, <<c[1], c[2] + 1>>,
                                  <<c[1] + 1, c[2] + 1>>}
                 /\ ~ended'
              \/ indices' = c /\ ended']_vars
    /\ DiffIsFinite

\* The first request passed over a matched pair and paired the next two
\* writes: both cursors moved by two, for one diagnostic.
C34_Witness ==
    /\ indices = <<2, 2>>
    /\ ~ended
    /\ Len(emitted) = 1
    /\ Before[1] = After[1]
    /\ emitted[1].kind[1] \in {"Moved", "OtherValue", "OtherReg"}

\* The ticks of a sequence of accesses or diagnostics never decrease.
TicksNonDecreasing(s) ==
    \A k \in 1..(Len(s) - 1) : s[k].when.tick <= s[k + 1].when.tick

\* C35: when both logs are non-decreasing in tick, so are the diagnostics
\* emitted so far, in every state of the diff.
C35_EmittedTicksNonDecreasing ==
    (TicksNonDecreasing(Before) /\ TicksNonDecreasing(After))
        => TicksNonDecreasing(emitted)

\* Both logs hold a write of tick 1 and a write of tick 2: the writes of
\* tick 1 came out as removed and added, in either order, before the pair of
\* tick 2.
C35_Witness ==
    /\ ended
    /\ Len(emitted) = 3
    /\ emitted[1].kind[1] # emitted[2].kind[1]
    /\ emitted[1].when.tick = 1
    /\ emitted[2].when.tick = 1
    /\ emitted[3].when.tick = 2
    /\ emitted[3].kind[1] = "OtherReg"

-----------------------------------------------------------------------------
(* Further properties of the front end                                     *)

\* The tick markers printed for the song last compared.
TickMarkers == {k \in 1..Len(report) : report[k][1] = "tick"}

\* The markers are in strictly increasing tick order.
MarkersIncrease ==
    \A k1 \in TickMarkers, k2 \in TickMarkers :
        k1 < k2 => report[k1][2] < report[k2][2]

\* Every diagnostic follows a marker, and the last marker before it is that of
\* its own tick.
UnderOwnMarker ==
    \A k \in Reported :
        \E m \in TickMarkers :
            /\ m < k
            /\ \A n \in TickMarkers : n < k => n <= m
            /\ report[m][2] = report[k][2].when.tick

\* No diagnostic of a later tick is printed before one of an earlier tick.
DiagnosticsInTickOrder ==
    \A k1 \in Reported, k2 \in Reported :
        k1 < k2 => report[k1][2].when.tick <= report[k2][2].when.tick

\* C36: in the report of one song the tick markers are in strictly
\* increasing tick order, every reported diagnostic is under the marker of its
\* own tick, and no diagnostic of a later tick precedes one of an earlier
\* tick.
C36_ReportInTickOrder ==
    /\ MarkersIncrease
    /\ UnderOwnMarker
    /\ DiagnosticsInTickOrder

\* A u32 as two 16-bit halves, most significant first: values from 2^31 on do
\* not fit the integers of the checker.
U32(hi, lo) == <<hi, lo>>

U32LE(x, y) == x[1] < y[1] \/ (x[1] = y[1] /\ x[2] <= y[2])

\* u32::from(x) * c for a u16 or u8 x, computed exactly: the low half, and
\* the high half before it is cut to 16 bits.
WideningMul(x, c) ==
    LET lo == x * (c % 65536)
    IN  [hi |-> x * (c \div 65536) + lo \div 65536, lo |-> lo % 65536]

\* The u32 multiplication overflows: a panic in a build with overflow checks,
\* a wrapped product in a build without.
MulOverflows(x, c) == WideningMul(x, c).hi > 65535

\* The product as a build without overflow checks computes it.
WrappingMul(x, c) == U32(WideningMul(x, c).hi % 65536, WideningMul(x, c).lo)

\* --timeout is a u16 and --slience-timeout a u8: every timeout, and the
\* default and the largest silence.
TimeoutSeconds == 0..65535

SilenceSeconds == {4, 255}

\* main after argh::from_env(): the two budgets are not computed yet.
InitBudgets ==
    /\ SimIdle
    /\ DiffIdle
    /\ file = None
    /\ parsed = None
    /\ program = None
    /\ args \in [timeout : TimeoutSeconds, slience_timeout : SilenceSeconds,
                 budgets : {None}]
    /\ heads = None
    /\ sims = None
    /\ song = 0
    /\ failed = <<>>
    /\ report = <<>>
    /\ exit_code = <<>>

\* let timeout = u32::from(args.timeout) * CYCLES_PER_SEC;
\* let silence_timeout = u32::from(args.slience_timeout) * CYCLES_PER_SEC;
MainBudgets ==
    /\ exit_code = <<>>
    /\ args.budgets = None
    /\ \/ /\ \/ MulOverflows(args.timeout, CYCLES_PER_SEC)
             \/ MulOverflows(args.slience_timeout, CYCLES_PER_SEC)
          /\ exit_code' = <<PANIC_EXIT>>
          /\ UNCHANGED args
       \/ /\ args' = [args EXCEPT !.budgets =
                         [timeout |-> WrappingMul(args.timeout, CYCLES_PER_SEC),
                          silence_timeout |->
                              WrappingMul(args.slience_timeout, CYCLES_PER_SEC)]]
          /\ UNCHANGED exit_code
    /\ UNCHANGED <<file, parsed, heads, sims, song, failed, report, program,
                   simvars, diffvars>>

SpecBudgets == InitBudgets /\ [][MainBudgets]_vars

\* C37: the conversion never overflows: main does not panic, the timeout
\* budget is seconds * 1,048,576, that is seconds * 16 in the upper half of
\* the u32 and 0 in the lower, and the budget of a timeout option is not
\* below the budget of the option one second shorter.
C37_TimeoutFitsU32 ==
    /\ exit_code # <<PANIC_EXIT>>
    /\ args.budgets # None =>
          /\ args.timeout * 16 <= 65535
          /\ args.budgets.timeout = U32(args.timeout * 16, 0)
          /\ args.timeout > 0 =>
                U32LE(WrappingMul(args.timeout - 1, CYCLES_PER_SEC),
                      args.budgets.timeout)

====
